---- MODULE Spec2Model ----
(***************************************************************************)
(* Membership-enforcement bot (defender/bot.py and defender/db/repo).      *)
(*                                                                         *)
(* The persistent store (PostgreSQL tables), the in-memory maps of bot.py  *)
(* and the cooperative tasks that run on the event loop: one update        *)
(* handler for join events (on_new_members_message / on_chat_member, with  *)
(* the enforce_user calls they make), the periodic_enforce job, and the    *)
(* second-step handlers of the admin commands.  Every `await` of the       *)
(* source is a suspension point, so every awaited store or platform call   *)
(* is one step of its task; the synchronous code after a call belongs to   *)
(* the step of the call.  Store and platform calls may fail.               *)
(***************************************************************************)
EXTENDS Integers, Sequences, FiniteSets, TLC

VARIABLES
    db_ready,            \* is_db_ready(cfg): fixed for the process lifetime
    allowed_members,     \* table allowed_members: user_id -> row or Absent
    global_banned,       \* table global_banned: set of user_id
    protected_chats,     \* table protected_chats: set of chat_id
    seen_users,          \* table seen_users: chat_id -> users, last_seen DESC
    join_logs,           \* table join_logs: rows in insertion (id) order
    management_groups,   \* table management_groups: rows <<mg_chat_id, owner_user_id>>
    mg_subgroups,        \* table mg_subgroups: rows <<mg, subgroup>>, created_at ASC
    mg_settings,         \* table mg_settings: rows <<mg_chat_id, add_member_mode>>
    join_events,         \* bot.py join_events: chat_id -> list of timestamps
    raid_notified_chats, \* bot.py raid_notified_chats
    last_notified,       \* bot.py _last_notified: <<chat, user>> -> timestamp
    now,                 \* time.time()
    ev,                  \* the join-update handler task and its enforce_user call
    sw,                  \* the periodic_enforce task
    adm,                 \* the admin command tasks (second-step handlers)
    hist,                \* history: joins registered, raid alerts, ban notifications
    proc                 \* the process: start-up phase, configuration, sweep job

vars == <<proc, db_ready, allowed_members, global_banned, protected_chats, seen_users,
          join_logs, management_groups, mg_subgroups, mg_settings, join_events,
          raid_notified_chats, last_notified, now, ev, sw, adm, hist>>

store == <<allowed_members, global_banned, protected_chats, seen_users,
           join_logs, management_groups, mg_subgroups, mg_settings>>
memory == <<join_events, raid_notified_chats, last_notified, now, hist>>

----------------------------------------------------------------------------
(* Identifiers and bounds                                                  *)

BotId == 0
Users == {1, 2}
Ids == Users \cup {BotId}
Rooms == {1, 2}
AdminIds == {8, 9}
AdminSlots == {1, 2}

RAID_WINDOW_SECONDS == 30
RAID_THRESHOLD_JOINS == 10
BAN_NOTIFY_COOLDOWN == 1800
SEEN_LIMIT == 5000

\* the clock at process start, and the number of join updates accepted
StartTime == 1800
MaxJoins == 1

\* the raid scenarios: the joins accepted in one room, and the clock readings
\* (the start and the ends of the next two raid windows)
MaxRaidJoins == 20

\* the sweep scenarios: the clock readings, half a cooldown interval apart
HalfCooldown == BAN_NOTIFY_COOLDOWN \div 2
SweepTimes == {StartTime + k * HalfCooldown : k \in 0..2}
RaidTimes == {StartTime + k * RAID_WINDOW_SECONDS : k \in 0..2}

Absent == <<>>
NoProfile == <<"None", "None", "None">>

----------------------------------------------------------------------------
(* Pure helpers                                                            *)

Min(S) == CHOOSE x \in S : \A y \in S : x <= y

RECURSIVE SortedSeq(_)
SortedSeq(S) == IF S = {} THEN <<>> ELSE <<Min(S)>> \o SortedSeq(S \ {Min(S)})

Range(s) == {s[i] : i \in 1..Len(s)}

Without(s, x) == SelectSeq(s, LAMBDA y : y # x)

Take(s, n) == IF Len(s) <= n THEN s ELSE SubSeq(s, 1, n)

----------------------------------------------------------------------------
(* defender/db/repo/core.py: one SQL statement each, autocommit            *)

\* mutant: the row is not written
upsert_allowed_member_dropped(t, u, profile) == t

\* mutant: ON CONFLICT DO NOTHING, the stored profile is kept
upsert_allowed_member_kept(t, u, profile) ==
    IF t[u] = Absent THEN [t EXCEPT ![u] = profile] ELSE t

\* INSERT ... ON CONFLICT (user_id) DO UPDATE SET the three profile columns;
\* user_id is the primary key, so the table is a function of the user
upsert_allowed_member(t, u, profile) == [t EXCEPT ![u] = profile]

remove_allowed_member(t, u) == [t EXCEPT ![u] = Absent]

\* mutant: the test on the row is inverted
is_allowed_member_inverted(t, u) == ~(u \in DOMAIN t /\ t[u] # Absent)

is_allowed_member(t, u) == u \in DOMAIN t /\ t[u] # Absent

list_allowed_members(t) ==
    LET ids == SortedSeq({u \in DOMAIN t : t[u] # Absent})
    IN  [i \in 1..Len(ids) |-> <<ids[i], t[ids[i]][1]>>]

add_protected_chat(s, c) == s \cup {c}

remove_protected_chat(s, c) == s \ {c}

is_protected_chat(s, c) == c \in s

list_protected_chats(s) == SortedSeq(s)

\* mutant: the ban row is not written
add_global_ban_skipped(s, u) == s

add_global_ban(s, u) == s \cup {u}

remove_global_ban(s, u) == s \ {u}

\* mutant: the global-ban table is not consulted
is_globally_banned_skipped(s, u) == FALSE

is_globally_banned(s, u) == u \in s

\* mutant: the seen row is not written
mark_seen_dropped(t, c, u) == t

mark_seen(t, c, u) == [t EXCEPT ![c] = <<u>> \o Without(t[c], u)]

\* mutant: no seen user is returned
get_seen_users_none(t, c, limit) == <<>>

\* mutant: the LIMIT clause is missing
get_seen_users_unlimited(t, c, limit) == t[c]

get_seen_users(t, c, limit) == Take(t[c], limit)

\* mutant: the JoinLog row is not written
log_join_event_dropped(l, c, u, action) == l

\* mutant: the table keeps the latest row only
log_join_event_latest(l, c, u, action) ==
    <<[chat_id |-> c, user_id |-> u, action_taken |-> action]>>

log_join_event(l, c, u, action) ==
    Append(l, [chat_id |-> c, user_id |-> u, action_taken |-> action])

\* the registry as it stands: u has a global_banned row, an allowed_members row
Banned(u) == u \in global_banned
Allowed(u) == u \in DOMAIN allowed_members /\ allowed_members[u] # Absent

----------------------------------------------------------------------------
(* defender/db/repo/management.py                                          *)

\* mutant: the row is inserted beside the old one
set_management_group_added(t, mg, owner) == t \cup {<<mg, owner>>}

\* INSERT ... ON CONFLICT (mg_chat_id) DO UPDATE SET owner_user_id
set_management_group(t, mg, owner) ==
    {r \in t : r[1] # mg} \cup {<<mg, owner>>}

\* Optional[int]: the set of owners stored for mg, empty when there is no row
get_management_group_owner(t, mg) == {r[2] : r \in {q \in t : q[1] = mg}}

\* mutant: a conflicting row is written again, with a new created_at
add_subgroup_renewed(rows, mg, sub) ==
    Append(SelectSeq(rows, LAMBDA r : r # <<mg, sub>>), <<mg, sub>>)

\* INSERT ... ON CONFLICT DO NOTHING on the key (mg_chat_id, subgroup_chat_id);
\* rows are kept in created_at order
add_subgroup(rows, mg, sub) ==
    IF <<mg, sub>> \in Range(rows) THEN rows ELSE Append(rows, <<mg, sub>>)

RECURSIVE Reverse(_)
Reverse(s) == IF s = <<>> THEN <<>> ELSE Append(Reverse(Tail(s)), Head(s))

\* INSERT ... ON CONFLICT (mg_chat_id) DO UPDATE SET add_member_mode
set_add_member_mode(t, mg, mode) == {r \in t : r[1] # mg} \cup {<<mg, mode>>}

list_subgroups(rows, mg) ==
    LET mine == SelectSeq(rows, LAMBDA r : r[1] = mg)
    IN  Reverse([i \in 1..Len(mine) |-> mine[i][2]])

----------------------------------------------------------------------------
(* config.py and the start-up of bot.py.  An environment value is the      *)
(* sequence of its characters.                                             *)

RECURSIVE LStrip(_)
LStrip(s) == IF s # <<>> /\ Head(s) = " " THEN LStrip(Tail(s)) ELSE s

\* str.strip()
Strip(s) == Reverse(LStrip(Reverse(LStrip(s))))

\* bot.py lines 83-85: bool(url and not url.strip().startswith("<"))
is_db_ready(url) == url # <<>> /\ (Strip(url) = <<>> \/ Head(Strip(url)) # "<")

\* the values DATABASE_URL may have: unset or empty, blank, a placeholder, a URL
NoUrl == <<>>
BlankUrl == <<" ">>
PlaceholderUrl == <<"<", "u", "r", "l", ">">>
DbUrl == <<"p", "g", ":", "/", "/", "d", "b">>
EnvUrls == {NoUrl, BlankUrl, PlaceholderUrl, DbUrl}
RunModes == {"local", "server"}

\* the process before main() has run
ProcBoot ==
    [phase |-> "boot", url |-> NoUrl, mode |-> "local", schema |-> FALSE,
     scheduled |-> FALSE, due |-> 0, conv |-> {}]

\* a process that is up with the sweep job scheduled; ready is is_db_ready(cfg)
ProcStarted(ready) ==
    [phase |-> "running", url |-> IF ready THEN DbUrl ELSE PlaceholderUrl,
     mode |-> "local", schema |-> ready, scheduled |-> TRUE, due |-> 0,
     conv |-> {}]

----------------------------------------------------------------------------
(* bot.py helpers                                                          *)

RECURSIVE PruneFront(_, _)
PruneFront(q, cutoff) ==
    IF q # <<>> /\ Head(q) < cutoff THEN PruneFront(Tail(q), cutoff) ELSE q

\* register_join: the new value of join_events[chat_id]; its length is the result
register_join(q, t) == PruneFront(Append(q, t), t - RAID_WINDOW_SECONDS)

\* mutant: the one-shot flag is ignored
ShouldAlertRepeating(cnt, notified) == cnt >= RAID_THRESHOLD_JOINS

\* mutant: the alert waits for the count to exceed the threshold
ShouldAlertLate(cnt, notified) == cnt > RAID_THRESHOLD_JOINS /\ ~notified

\* lines 816 and 850: cnt >= RAID_THRESHOLD_JOINS and chat_id not in raid_notified_chats
ShouldAlert(cnt, notified) == cnt >= RAID_THRESHOLD_JOINS /\ ~notified

\* mutant: the bot's own id is not recognised
IsSelfNever(u) == FALSE

\* enforce_user line 162
IsSelf(u) == u = BotId

\* mutant: the terminal status is not recognised
IsKickedNever(st) == FALSE

\* mutant: a failed lookup counts as the terminal status
IsKickedOrUnknown(st) == st # "member"

\* the terminal status of the membership pre-check
IsKicked(st) == st = "kicked"

\* on_chat_member line 846
IsJoinTransition(old, new) ==
    old \in {"left", "kicked"} /\ new \in {"member", "restricted"}

\* History of the calls the properties speak about: every timestamp passed to
\* register_join per room, the largest count it returned before the latest
\* call, the raid alerts raised per room, the times of the last two ban
\* notifications (live or sweep) per (room, user), the pairs for which a
\* ban call of enforce_user failed since the last sweep run returned, and the
\* (management group, user) pairs of the owners that have been replaced.
HistInit ==
    [joins  |-> [c \in Rooms |-> <<>>],
     peak   |-> [c \in Rooms |-> 0],
     alerts |-> [c \in Rooms |-> 0],
     pings  |-> [k \in Rooms \X Users |-> <<>>],
     unbanned |-> {},
     exowners |-> {}]

LastTwo(s, t) == IF Len(s) < 2 THEN Append(s, t) ELSE <<s[2], t>>

\* a register_join(c) call at time t; prev is the count the previous call of
\* the room returned, raid tells whether this call raised the alert
HistJoin(h, c, t, prev, raid) ==
    [h EXCEPT !.joins[c] = Append(@, t),
              !.peak[c] = IF prev > @ THEN prev ELSE @,
              !.alerts[c] = IF raid THEN @ + 1 ELSE @]

\* a ban notification for the pair k goes out to the superadmins at time t
HistPing(h, k, t) ==
    IF k \in DOMAIN h.pings THEN [h EXCEPT !.pings[k] = LastTwo(@, t)] ELSE h

\* set_management_group(mg, owner) replaces the owners stored in t
HistOwner(h, t, mg, owner) ==
    [h EXCEPT !.exowners =
        (@ \cup {<<mg, o>> : o \in get_management_group_owner(t, mg)})
        \ {<<mg, owner>>}]

\* the ban call of enforce_user for the pair k raised
HistBanFailed(h, k) == [h EXCEPT !.unbanned = @ \cup {k}]

----------------------------------------------------------------------------
(* The join-update handler task.  ev.inv is the record of the enforce_user *)
(* invocation in progress: what it read, and the calls it made; sent and   *)
(* raidSent are the send_message attempts of the ban and of the raid       *)
(* notification, in order, each with its outcome.                          *)

\* mutant: a failed delivery ends the loop
NotifyStepAbort(todo, ok) == IF ok THEN Tail(todo) ELSE <<>>

\* the recipients left after one send_message inside try/except: pass
NotifyStep(todo, ok) == Tail(todo)

InvInit ==
    [status |-> "none", gb |-> "none", al |-> "none",
     wasBanned |-> FALSE, wasAllowed |-> FALSE,
     bans |-> 0, banOk |-> FALSE, attempted |-> {},
     calls |-> 0, raised |-> FALSE, out |-> "none",
     seenPre |-> <<>>, seenPost |-> <<>>, logsPre |-> 0, sent |-> <<>>]

EvIdle ==
    [pc |-> "idle", chat |-> 0, members |-> <<>>,
     join |-> FALSE, todo |-> <<>>, hres |-> "none", inv |-> InvInit,
     raidSent |-> <<>>]

EvUser == Head(ev.members)

EvReturn(outcome) == [ev EXCEPT !.pc = "ret", !.inv.out = outcome]

\* on_new_members_message lines 801-808: the update carries chat c and members ms
NewMembersStart(c, ms) ==
    /\ ev.pc = "idle"
    /\ ev' = IF db_ready
             THEN [EvIdle EXCEPT !.pc = "protected", !.chat = c, !.members = ms,
                                 !.join = TRUE]
             ELSE [EvIdle EXCEPT !.pc = "hret", !.chat = c, !.members = ms,
                                 !.hres = "not_ready"]
    /\ UNCHANGED <<db_ready, proc, store, memory, sw, adm>>

\* on_chat_member lines 828-834: a status change old -> new of user u in chat c
ChatMemberStart(c, u, old, new) ==
    /\ ev.pc = "idle"
    /\ ev' = IF db_ready
             THEN [EvIdle EXCEPT !.pc = "protected", !.chat = c, !.members = <<u>>,
                                 !.join = IsJoinTransition(old, new)]
             ELSE [EvIdle EXCEPT !.pc = "hret", !.chat = c, !.members = <<u>>,
                                 !.hres = "not_ready"]
    /\ UNCHANGED <<db_ready, proc, store, memory, sw, adm>>

\* lines 810-817 and 836-851: is_protected_chat, the join filter, register_join
\* and the one-shot raid flag (no await between them)
HandlerProtected ==
    /\ ev.pc = "protected"
    /\ \E ok \in BOOLEAN :
         IF ~ok
         THEN /\ ev' = [ev EXCEPT !.pc = "hret", !.hres = "raised"]
              /\ UNCHANGED <<join_events, raid_notified_chats, hist>>
         ELSE IF ~is_protected_chat(protected_chats, ev.chat)
         THEN /\ ev' = [ev EXCEPT !.pc = "hret", !.hres = "unprotected"]
              /\ UNCHANGED <<join_events, raid_notified_chats, hist>>
         ELSE IF ~ev.join
         THEN /\ ev' = [ev EXCEPT !.pc = "hret", !.hres = "no_join"]
              /\ UNCHANGED <<join_events, raid_notified_chats, hist>>
         ELSE LET q   == register_join(join_events[ev.chat], now)
                  cnt == Len(q)
                  raid == ShouldAlert(cnt, ev.chat \in raid_notified_chats)
              IN  /\ join_events' = [join_events EXCEPT ![ev.chat] = q]
                  /\ raid_notified_chats' =
                        IF raid THEN raid_notified_chats \cup {ev.chat}
                                ELSE raid_notified_chats
                  /\ hist' = HistJoin(hist, ev.chat, now, Len(join_events[ev.chat]), raid)
                  /\ ev' = IF raid /\ AdminIds # {}
                           THEN [ev EXCEPT !.pc = "raid_notify",
                                           !.todo = SortedSeq(AdminIds)]
                           ELSE [ev EXCEPT !.pc = "enter"]
    /\ UNCHANGED <<db_ready, proc, store, last_notified, now, sw, adm>>

\* lines 818-822 and 852-856: one send_message per superadmin, failures ignored
RaidNotify ==
    /\ ev.pc = "raid_notify"
    /\ \E ok \in BOOLEAN :
         ev' = [ev EXCEPT !.todo = NotifyStep(@, ok),
                          !.pc = IF NotifyStep(ev.todo, ok) = <<>>
                                 THEN "enter" ELSE @,
                          !.raidSent = Append(@, <<Head(ev.todo), ok>>)]
    /\ UNCHANGED <<db_ready, proc, store, memory, sw, adm>>

\* enforce_user lines 161-165 for the member at the head of ev.members
EnforceEnter ==
    /\ ev.pc = "enter"
    /\ LET entered == [ev EXCEPT !.inv.seenPre = seen_users[ev.chat],
                                 !.inv.logsPre = Len(join_logs)]
       IN  ev' = IF IsSelf(EvUser)
                 THEN [entered EXCEPT !.pc = "ret", !.inv.out = "self"]
                 ELSE IF ~db_ready
                 THEN [entered EXCEPT !.pc = "ret", !.inv.out = "not_ready"]
                 ELSE [entered EXCEPT !.pc = "mark"]
    /\ UNCHANGED <<db_ready, proc, store, memory, sw, adm>>

\* line 167: mark_seen, outside the try block
EnforceMark ==
    /\ ev.pc = "mark"
    /\ \E ok \in BOOLEAN :
         IF ok
         THEN /\ seen_users' = mark_seen(seen_users, ev.chat, EvUser)
              /\ ev' = [ev EXCEPT !.pc = "precheck", !.inv.calls = @ + 1,
                                  !.inv.seenPost = seen_users'[ev.chat]]
         ELSE /\ seen_users' = seen_users
              /\ ev' = [EvReturn("store_error") EXCEPT !.inv.calls = @ + 1,
                                                 !.inv.raised = TRUE]
    /\ UNCHANGED <<db_ready, proc, allowed_members, global_banned, protected_chats,
                   join_logs, management_groups, mg_subgroups, mg_settings, memory, sw, adm>>

\* lines 171-176: get_chat_member; a lookup error is ignored
EnforcePrecheck ==
    /\ ev.pc = "precheck"
    /\ \E st \in {"member", "kicked", "lookup_error"} :
         ev' = IF IsKicked(st)
               THEN [EvReturn("kicked") EXCEPT !.inv.status = st, !.inv.calls = @ + 1]
               ELSE [ev EXCEPT !.pc = "gb", !.inv.status = st, !.inv.calls = @ + 1]
    /\ UNCHANGED <<db_ready, proc, store, memory, sw, adm>>

\* line 178: is_globally_banned
EnforceGb ==
    /\ ev.pc = "gb"
    /\ \E ok \in BOOLEAN :
         ev' = IF ~ok
               THEN [EvReturn("store_error") EXCEPT !.inv.gb = "err", !.inv.calls = @ + 1]
               ELSE [ev EXCEPT
                       !.pc = IF is_globally_banned(global_banned, EvUser)
                              THEN "ban_gb" ELSE "al",
                       !.inv.gb = IF is_globally_banned(global_banned, EvUser)
                                  THEN "yes" ELSE "no",
                       !.inv.wasBanned = Banned(EvUser),
                       !.inv.wasAllowed = Allowed(EvUser),
                       !.inv.calls = @ + 1]
    /\ UNCHANGED <<db_ready, proc, store, memory, sw, adm>>

\* lines 179-180: ban_chat_member, then return
EnforceBanGb ==
    /\ ev.pc = "ban_gb"
    /\ \E ok \in BOOLEAN :
         /\ ev' = [EvReturn("gban") EXCEPT !.inv.bans = @ + 1, !.inv.banOk = ok,
                                           !.inv.calls = @ + 1]
         /\ hist' = IF ok THEN hist
                    ELSE HistBanFailed(hist, <<ev.chat, EvUser>>)
    /\ UNCHANGED <<db_ready, proc, store, join_events, raid_notified_chats,
                   last_notified, now, sw, adm>>

\* line 182: is_allowed_member
EnforceAl ==
    /\ ev.pc = "al"
    /\ \E ok \in BOOLEAN :
         ev' = IF ~ok
               THEN [EvReturn("store_error") EXCEPT !.inv.al = "err", !.inv.calls = @ + 1]
               ELSE IF is_allowed_member(allowed_members, EvUser)
               THEN [EvReturn("allow") EXCEPT !.inv.al = "yes", !.inv.calls = @ + 1]
               ELSE [ev EXCEPT !.pc = "ban_na", !.inv.al = "no", !.inv.calls = @ + 1]
    /\ UNCHANGED <<db_ready, proc, store, memory, sw, adm>>

\* line 183: ban_chat_member; a failure leaves the try block
EnforceBanNa ==
    /\ ev.pc = "ban_na"
    /\ \E ok \in BOOLEAN :
         IF ~ok
         THEN /\ ev' = [EvReturn("not_allowed") EXCEPT !.inv.bans = @ + 1,
                                                       !.inv.calls = @ + 1]
              /\ hist' = HistBanFailed(hist, <<ev.chat, EvUser>>)
         ELSE /\ ev' = [ev EXCEPT !.pc = IF AdminIds = {} THEN "log" ELSE "notify",
                                  !.todo = SortedSeq(AdminIds),
                                  !.inv.bans = @ + 1, !.inv.banOk = TRUE,
                                  !.inv.calls = @ + 1]
              /\ hist' = IF AdminIds = {} THEN hist
                         ELSE HistPing(hist, <<ev.chat, EvUser>>, now)
    /\ UNCHANGED <<db_ready, proc, store, join_events, raid_notified_chats,
                   last_notified, now, sw, adm>>

\* lines 186-190: one send_message per superadmin, failures ignored
EnforceNotify ==
    /\ ev.pc = "notify"
    /\ \E ok \in BOOLEAN :
         ev' = [ev EXCEPT !.todo = NotifyStep(@, ok),
                          !.pc = IF NotifyStep(ev.todo, ok) = <<>>
                                 THEN "log" ELSE @,
                          !.inv.attempted = @ \cup {Head(ev.todo)},
                          !.inv.sent = Append(@, <<Head(ev.todo), ok>>),
                          !.inv.calls = @ + 1]
    /\ UNCHANGED <<db_ready, proc, store, memory, sw, adm>>

\* line 192: log_join_event(..., "banned")
EnforceLog ==
    /\ ev.pc = "log"
    /\ \E ok \in BOOLEAN :
         IF ok
         THEN /\ join_logs' = log_join_event(join_logs, ev.chat, EvUser, "banned")
              /\ ev' = [EvReturn("not_allowed") EXCEPT !.inv.calls = @ + 1]
         ELSE /\ join_logs' = join_logs
              /\ ev' = [EvReturn("store_error") EXCEPT !.inv.calls = @ + 1]
    /\ UNCHANGED <<db_ready, proc, allowed_members, global_banned, protected_chats,
                   seen_users, management_groups, mg_subgroups, mg_settings, memory, sw, adm>>

\* enforce_user has returned (or raised): lines 824-825, 858
EnforceReturn ==
    /\ ev.pc = "ret"
    /\ ev' = IF ev.inv.raised
             THEN [ev EXCEPT !.pc = "hret", !.hres = "raised"]
             ELSE IF Tail(ev.members) = <<>>
             THEN [ev EXCEPT !.pc = "hret", !.hres = "enforced"]
             ELSE [ev EXCEPT !.pc = "enter", !.members = Tail(@), !.inv = InvInit]
    /\ UNCHANGED <<db_ready, proc, store, memory, sw, adm>>

HandlerFinish ==
    /\ ev.pc = "hret"
    /\ ev' = EvIdle
    /\ UNCHANGED <<db_ready, proc, store, memory, sw, adm>>

----------------------------------------------------------------------------
(* The periodic_enforce task.  sw.inv is the record of the candidate being *)
(* evaluated: what the sweep read for it, and the calls it made.  The run  *)
(* keeps the rooms whose iteration began (visited), the administrator sets *)
(* fetched, the (room, user) pairs a ban call was made for, the rooms in   *)
(* which a call failed, the rooms whose iteration the outer except cut     *)
(* short, and the pairs skipped because the platform reported "kicked".    *)

\* the administrator sets get_chat_administrators may report
ChatAdminSets == {{}, {2}}

SInvInit ==
    [status |-> "none", gb |-> "none", al |-> "none",
     wasBanned |-> FALSE, wasAllowed |-> FALSE,
     bans |-> 0, banOk |-> FALSE, attempted |-> {}, notified |-> FALSE,
     aborted |-> FALSE, out |-> "none", sent |-> <<>>]

SwIdle ==
    [pc |-> "idle", chats |-> <<>>, admin_ids |-> {}, seen |-> <<>>,
     todo |-> <<>>, listed |-> {}, inv |-> SInvInit,
     visited |-> {}, fetched |-> [c \in Rooms |-> {}], bancalls |-> {},
     failed |-> {}, cut |-> {}, kicked |-> {}]

SwChat == Head(sw.chats)
SwUser == Head(sw.seen)

\* mutant: nobody is skipped
SkipAdminsNobody(seen, admins) == seen

\* line 895: candidates in the administrator set are skipped
RECURSIVE SkipAdmins(_, _)
SkipAdmins(seen, admins) ==
    IF seen # <<>> /\ Head(seen) \in admins
    THEN SkipAdmins(Tail(seen), admins) ELSE seen

\* mutant: the sweep bans the globally banned only
ShouldBanOnlyBanned(banned, allowed) == banned

\* line 898: the ban predicate of the sweep
ShouldBan(banned, allowed) == banned \/ ~allowed

\* mutant: the cooldown is never in force
CooldownElapsedAlways(t, last) == TRUE

\* line 917: the cooldown test
CooldownElapsed(t, last) == t - last >= BAN_NOTIFY_COOLDOWN

\* the candidate is finished (continue, or the inner except)
SwCandidate(outcome) == [sw EXCEPT !.pc = "cret", !.inv.out = outcome]

\* the outer except: the rest of this room is skipped
SwAbort ==
    [sw EXCEPT !.pc = "cret", !.inv.out = "store_error", !.inv.aborted = TRUE,
               !.failed = @ \cup {Head(sw.chats)},
               !.cut = @ \cup {Head(sw.chats)}]

\* the for loop moves to the next room, or the job returns
SwNext(s) ==
    IF Tail(s.chats) = <<>>
    THEN [s EXCEPT !.pc = "done", !.admin_ids = {}, !.seen = <<>>,
                   !.todo = <<>>, !.inv = SInvInit]
    ELSE [s EXCEPT !.pc = "admins", !.chats = Tail(@), !.admin_ids = {},
                   !.seen = <<>>, !.todo = <<>>, !.inv = SInvInit]

SwNextChat == SwNext(sw)

\* mutant: the exception ends the run
SwFailChatEndsRun ==
    [sw EXCEPT !.pc = "done", !.failed = @ \cup {Head(sw.chats)},
               !.cut = @ \cup {Head(sw.chats)},
               !.admin_ids = {}, !.seen = <<>>, !.todo = <<>>, !.inv = SInvInit]

\* a call of the current room raised into the outer except
SwFailChat ==
    SwNext([sw EXCEPT !.failed = @ \cup {Head(sw.chats)},
                      !.cut = @ \cup {Head(sw.chats)}])

\* lines 880-885
SweepStart ==
    /\ sw.pc = "idle"
    /\ db_ready
    /\ sw' = [SwIdle EXCEPT !.pc = "list"]
    /\ UNCHANGED <<db_ready, proc, store, memory, ev, adm>>

\* line 885: list_protected_chats, outside the try blocks
SweepList ==
    /\ sw.pc = "list"
    /\ \E ok \in BOOLEAN :
         sw' = IF ~ok \/ list_protected_chats(protected_chats) = <<>>
               THEN SwIdle
               ELSE [sw EXCEPT !.pc = "admins",
                               !.chats = list_protected_chats(protected_chats),
                               !.listed = protected_chats]
    /\ UNCHANGED <<db_ready, proc, store, memory, ev, adm>>

\* lines 889-890: get_chat_administrators
SweepAdmins ==
    /\ sw.pc = "admins"
    /\ \/ sw' = SwNext([sw EXCEPT !.visited = @ \cup {SwChat},
                                   !.failed = @ \cup {SwChat},
                                   !.cut = @ \cup {SwChat}])
       \/ \E A \in ChatAdminSets :
             sw' = [sw EXCEPT !.pc = "seen", !.admin_ids = A,
                              !.visited = @ \cup {SwChat},
                              !.fetched[SwChat] = A]
    /\ UNCHANGED <<db_ready, proc, store, memory, ev, adm>>

\* lines 892-896: get_seen_users, then the first candidate that is no administrator
SweepSeen ==
    /\ sw.pc = "seen"
    /\ \E ok \in BOOLEAN :
         LET cand == SkipAdmins(get_seen_users(seen_users, SwChat, SEEN_LIMIT),
                                sw.admin_ids)
         IN  sw' = IF ~ok THEN SwFailChat
                   ELSE IF cand = <<>> THEN SwNextChat
                   ELSE [sw EXCEPT !.pc = "gb", !.seen = cand, !.inv = SInvInit]
    /\ UNCHANGED <<db_ready, proc, store, memory, ev, adm>>

\* line 898, left operand: is_globally_banned
SweepGb ==
    /\ sw.pc = "gb"
    /\ \E ok \in BOOLEAN :
         sw' = IF ~ok
               THEN [SwAbort EXCEPT !.inv.gb = "err"]
               ELSE [sw EXCEPT
                       !.pc = IF is_globally_banned(global_banned, SwUser)
                              THEN "precheck" ELSE "al",
                       !.inv.gb = IF is_globally_banned(global_banned, SwUser)
                                  THEN "yes" ELSE "no",
                       !.inv.wasBanned = Banned(SwUser),
                       !.inv.wasAllowed = Allowed(SwUser)]
    /\ UNCHANGED <<db_ready, proc, store, memory, ev, adm>>

\* lines 899-902, right operand: is_allowed_member, read only when not banned
SweepAl ==
    /\ sw.pc = "al"
    /\ \E ok \in BOOLEAN :
         sw' = IF ~ok
               THEN [SwAbort EXCEPT !.inv.al = "err"]
               ELSE LET a == is_allowed_member(allowed_members, SwUser)
                    IN  IF ShouldBan(FALSE, a)
                        THEN [sw EXCEPT !.pc = "precheck", !.inv.al = "no"]
                        ELSE [SwCandidate("allow") EXCEPT !.inv.al = "yes"]
    /\ UNCHANGED <<db_ready, proc, store, memory, ev, adm>>

\* lines 904-909: get_chat_member; a lookup error is ignored
SweepPrecheck ==
    /\ sw.pc = "precheck"
    /\ \E st \in {"member", "kicked", "lookup_error"} :
         sw' = IF IsKicked(st)
               THEN [SwCandidate("kicked") EXCEPT
                        !.inv.status = st,
                        !.kicked = @ \cup {<<SwChat, SwUser>>}]
               ELSE [sw EXCEPT !.pc = "ban", !.inv.status = st]
    /\ UNCHANGED <<db_ready, proc, store, memory, ev, adm>>

\* lines 911-918: ban_chat_member, then the cooldown test and its refresh
SweepBan ==
    /\ sw.pc = "ban"
    /\ \E ok \in BOOLEAN :
         LET key  == <<SwChat, SwUser>>
             tell == CooldownElapsed(now, last_notified[key])
         IN  IF ~ok
             THEN /\ sw' = [SwCandidate("ban_failed") EXCEPT
                                    !.inv.bans = @ + 1,
                                    !.bancalls = @ \cup {key},
                                    !.failed = @ \cup {SwChat}]
                  /\ last_notified' = last_notified
                  /\ hist' = hist
             ELSE /\ last_notified' =
                        IF tell THEN [last_notified EXCEPT ![key] = now]
                                ELSE last_notified
                  /\ hist' = IF tell /\ AdminIds # {}
                             THEN HistPing(hist, key, now) ELSE hist
                  /\ sw' = IF tell /\ AdminIds # {}
                           THEN [sw EXCEPT !.pc = "notify",
                                           !.todo = SortedSeq(AdminIds),
                                           !.inv.bans = @ + 1, !.inv.banOk = TRUE,
                                           !.inv.notified = TRUE,
                                           !.bancalls = @ \cup {key}]
                           ELSE [SwCandidate("banned") EXCEPT
                                           !.inv.bans = @ + 1, !.inv.banOk = TRUE,
                                           !.inv.notified = tell,
                                           !.bancalls = @ \cup {key}]
    /\ UNCHANGED <<db_ready, proc, store, join_events, raid_notified_chats, now, ev, adm>>

\* lines 919-923: one send_message per superadmin, failures ignored
SweepNotify ==
    /\ sw.pc = "notify"
    /\ \E ok \in BOOLEAN :
         sw' = IF NotifyStep(sw.todo, ok) = <<>>
               THEN [SwCandidate("banned") EXCEPT
                        !.todo = <<>>, !.inv.attempted = @ \cup {Head(sw.todo)},
                        !.inv.sent = Append(@, <<Head(sw.todo), ok>>)]
               ELSE [sw EXCEPT !.todo = NotifyStep(@, ok),
                               !.inv.attempted = @ \cup {Head(sw.todo)},
                               !.inv.sent = Append(@, <<Head(sw.todo), ok>>)]
    /\ UNCHANGED <<db_ready, proc, store, memory, ev, adm>>

\* the loops advance: next candidate that is no administrator, else next room
SweepAdvance ==
    /\ sw.pc = "cret"
    /\ LET rest == SkipAdmins(Tail(sw.seen), sw.admin_ids)
       IN  sw' = IF sw.inv.aborted \/ rest = <<>>
                 THEN SwNextChat
                 ELSE [sw EXCEPT !.pc = "gb", !.seen = rest, !.inv = SInvInit]
    /\ UNCHANGED <<db_ready, proc, store, memory, ev, adm>>

\* periodic_enforce returns: the for loop over the rooms is exhausted
SweepFinish ==
    /\ sw.pc = "done"
    /\ sw' = SwIdle
    /\ hist' = [hist EXCEPT !.unbanned = {}]
    /\ UNCHANGED <<db_ready, proc, store, join_events, raid_notified_chats,
                   last_notified, now, ev, adm>>

----------------------------------------------------------------------------
(* on_any_message_seen, lines 860-873: a message of user u in chat c       *)

SeenStart(c, u, ctype) ==
    /\ ev.pc = "idle"
    /\ ev' = IF ctype = "private" THEN [EvIdle EXCEPT !.pc = "hret", !.chat = c,
                                            !.members = <<u>>, !.hres = "private"]
             ELSE IF ~db_ready THEN [EvIdle EXCEPT !.pc = "hret", !.chat = c,
                                            !.members = <<u>>, !.hres = "not_ready"]
             ELSE [EvIdle EXCEPT !.pc = "seen_protected", !.chat = c,
                                 !.members = <<u>>]
    /\ UNCHANGED <<db_ready, proc, store, memory, sw, adm>>

\* line 870: is_protected_chat
SeenProtected ==
    /\ ev.pc = "seen_protected"
    /\ \E ok \in BOOLEAN :
         ev' = IF ~ok THEN [ev EXCEPT !.pc = "hret", !.hres = "raised"]
               ELSE IF ~is_protected_chat(protected_chats, ev.chat)
               THEN [ev EXCEPT !.pc = "hret", !.hres = "unprotected"]
               ELSE [ev EXCEPT !.pc = "seen_mark"]
    /\ UNCHANGED <<db_ready, proc, store, memory, sw, adm>>

\* line 872: mark_seen
SeenMark ==
    /\ ev.pc = "seen_mark"
    /\ \E ok \in BOOLEAN :
         IF ok
         THEN /\ seen_users' = mark_seen(seen_users, ev.chat, EvUser)
              /\ ev' = [ev EXCEPT !.pc = "hret", !.hres = "seen"]
         ELSE /\ seen_users' = seen_users
              /\ ev' = [ev EXCEPT !.pc = "hret", !.hres = "raised"]
    /\ UNCHANGED <<db_ready, proc, allowed_members, global_banned, protected_chats,
                   join_logs, management_groups, mg_subgroups, mg_settings, memory, sw, adm>>

----------------------------------------------------------------------------
(* Start-up: app.py main(), Config.__init__, build_application and the two *)
(* run modes.                                                              *)

\* bot.py line 1162: run_repeating(..., interval=60, first=60)
SWEEP_INTERVAL == 60
SWEEP_FIRST == 60

\* app.py line 28, config.py lines 16-37 with BOT_TOKEN and WEBHOOK_HOST set:
\* a DATABASE_URL that is empty after strip() raises RuntimeError out of main()
BootConfig ==
    /\ proc.phase = "boot"
    /\ \E url \in EnvUrls, mode \in RunModes :
         LET u == Strip(url)
         IN  /\ proc' = [proc EXCEPT
                            !.phase = IF u = <<>> THEN "crashed" ELSE "configured",
                            !.url = u, !.mode = mode]
             /\ db_ready' = is_db_ready(u)
    /\ UNCHANGED <<store, memory, ev, sw, adm>>

\* run_local_polling lines 991-993: run_polling initialises the application
\* and awaits post_init (lines 1160-1162): init_db, which may raise out of
\* run_polling, then the sweep job is scheduled
BootLocal ==
    /\ proc.phase = "configured" /\ proc.mode = "local"
    /\ \E ok \in BOOLEAN :
         proc' = IF db_ready /\ ~ok
                 THEN [proc EXCEPT !.phase = "crashed"]
                 ELSE [proc EXCEPT !.phase = "running", !.schema = db_ready,
                                   !.scheduled = TRUE, !.due = now + SWEEP_FIRST]
    /\ UNCHANGED <<db_ready, store, memory, ev, sw, adm>>

\* run_server_webhook lines 996-1020: app.initialize() and app.start() are
\* awaited directly, then the HTTP server feeds process_update; nothing on
\* this path calls app.post_init
BootServer ==
    /\ proc.phase = "configured" /\ proc.mode = "server"
    /\ proc' = [proc EXCEPT !.phase = "running"]
    /\ UNCHANGED <<db_ready, store, memory, ev, sw, adm>>

\* the job queue calls periodic_enforce when the job is due (lines 880-882)
JobFire ==
    /\ proc.phase = "running" /\ proc.scheduled /\ now >= proc.due
    /\ sw.pc = "idle" /\ ev.pc = "idle"
    /\ proc' = [proc EXCEPT !.due = @ + SWEEP_INTERVAL]
    /\ sw' = IF db_ready THEN [SwIdle EXCEPT !.pc = "list"] ELSE SwIdle
    /\ UNCHANGED <<db_ready, store, memory, ev, adm>>

----------------------------------------------------------------------------
(* The admin command tasks: the handlers that act on the identifier a      *)
(* superadmin (or an MG owner) has sent.  adm[a].clean is FALSE once       *)
(* another command has written the registry while this one was running.    *)

\* a text without keyword and without identifier
NoText == [kw |-> "none", id |-> 0]

AdmIdle ==
    [pc |-> "idle", cmd |-> "none", who |-> 0, target |-> 0, arg |-> 0,
     prof |-> NoProfile, chats |-> <<>>, tried |-> <<>>, clean |-> TRUE,
     cleared |-> FALSE, ctype |-> "private", prev |-> Absent,
     members |-> <<>>, chat |-> 0, kind |-> "none", text |-> NoText,
     mode |-> "none", via |-> "none"]

FirstPc(cmd) ==
    CASE cmd = "add_member"    -> "upsert"
      [] cmd = "remove_member" -> "rm_allowed"
      [] cmd = "ban"           -> "add_ban"
      [] cmd = "unban"         -> "rm_ban"
      [] cmd = "add_chat"      -> "add_chat"
      [] cmd = "remove_chat"   -> "rm_chat"
      [] cmd = "set_mg"        -> "set_mg"
      [] cmd = "add_group"     -> "guard"

\* slot a takes a step that reads the store or calls the platform
AdmStep(a, rec) == [adm EXCEPT ![a] = rec]

\* slot a takes a step that writes the registry
AdmWrite(a, rec) ==
    [b \in AdminSlots |->
        IF b = a THEN rec
        ELSE IF adm[b].pc # "idle" THEN [adm[b] EXCEPT !.clean = FALSE]
        ELSE adm[b]]

AdmFailed(a) == AdmStep(a, [adm[a] EXCEPT !.pc = "failed"])

\* sa_add_member_ref, sa_remove_member_id, sa_ban_id, sa_unban_id,
\* sa_add_chat_id, sa_remove_chat_id: the text is a valid identifier t
AdmStart(a, cmd, t, prof) ==
    /\ adm[a].pc = "idle"
    /\ db_ready
    /\ adm' = AdmStep(a, [AdmIdle EXCEPT !.pc = FirstPc(cmd), !.cmd = cmd,
                                         !.target = t, !.prof = prof])
    /\ UNCHANGED <<db_ready, proc, store, memory, ev, sw>>

\* sa_remove_member_id line 421
AdmRmAllowed(a) ==
    /\ adm[a].pc = "rm_allowed"
    /\ \E ok \in BOOLEAN :
         IF ok
         THEN /\ allowed_members' = remove_allowed_member(allowed_members, adm[a].target)
              /\ adm' = AdmWrite(a, [adm[a] EXCEPT !.pc = "add_ban"])
         ELSE /\ allowed_members' = allowed_members
              /\ adm' = AdmFailed(a)
    /\ UNCHANGED <<db_ready, proc, global_banned, protected_chats, seen_users, join_logs,
                   management_groups, mg_subgroups, mg_settings, memory, ev, sw>>

\* sa_remove_member_id line 422, sa_ban_id line 453
AdmAddBan(a) ==
    /\ adm[a].pc = "add_ban"
    /\ \E ok \in BOOLEAN :
         IF ok
         THEN /\ global_banned' = add_global_ban(global_banned, adm[a].target)
              /\ adm' = AdmWrite(a, [adm[a] EXCEPT !.pc = "list"])
         ELSE /\ global_banned' = global_banned
              /\ adm' = AdmFailed(a)
    /\ UNCHANGED <<db_ready, proc, allowed_members, protected_chats, seen_users, join_logs,
                   management_groups, mg_subgroups, mg_settings, memory, ev, sw>>

\* sa_unban_id line 485
AdmRmBan(a) ==
    /\ adm[a].pc = "rm_ban"
    /\ \E ok \in BOOLEAN :
         IF ok
         THEN /\ global_banned' = remove_global_ban(global_banned, adm[a].target)
              /\ adm' = AdmWrite(a, [adm[a] EXCEPT
                                        !.pc = "upsert",
                                        !.cleared = adm[a].target \in global_banned])
         ELSE /\ global_banned' = global_banned
              /\ adm' = AdmFailed(a)
    /\ UNCHANGED <<db_ready, proc, allowed_members, protected_chats, seen_users, join_logs,
                   management_groups, mg_subgroups, mg_settings, memory, ev, sw>>

\* the program point after the upsert: sa_unban_id goes on to the platform calls
AfterUpsert(cmd) == IF cmd = "unban" THEN "list" ELSE "done"

\* sa_unban_id line 486 (profile None, None, None), sa_add_member_ref line 399
AdmUpsert(a) ==
    /\ adm[a].pc = "upsert"
    /\ \E ok \in BOOLEAN :
         IF ok
         THEN /\ allowed_members' =
                    upsert_allowed_member(allowed_members, adm[a].target, adm[a].prof)
              /\ adm' = AdmWrite(a, [adm[a] EXCEPT
                                        !.pc = AfterUpsert(adm[a].cmd),
                                        !.prev = allowed_members[adm[a].target]])
         ELSE /\ allowed_members' = allowed_members
              /\ adm' = AdmFailed(a)
    /\ UNCHANGED <<db_ready, proc, global_banned, protected_chats, seen_users, join_logs,
                   management_groups, mg_subgroups, mg_settings, memory, ev, sw>>

\* lines 425, 455, 488: list_protected_chats
AdmList(a) ==
    /\ adm[a].pc = "list"
    /\ \E ok \in BOOLEAN :
         adm' = IF ~ok THEN AdmFailed(a)
                ELSE LET cs == list_protected_chats(protected_chats)
                     IN  AdmStep(a, [adm[a] EXCEPT
                                       !.pc = IF cs = <<>> THEN "done" ELSE "plat",
                                       !.chats = cs])
    /\ UNCHANGED <<db_ready, proc, store, memory, ev, sw>>

\* lines 426-430, 457-462, 490-495: ban_chat_member / unban_chat_member per chat,
\* failures counted and ignored
AdmPlatform(a) ==
    /\ adm[a].pc = "plat"
    /\ \E ok \in BOOLEAN :
         adm' = AdmStep(a, [adm[a] EXCEPT
                              !.pc = IF Tail(adm[a].chats) = <<>> THEN "done" ELSE @,
                              !.chats = Tail(@),
                              !.tried = Append(@, Head(adm[a].chats))])
    /\ UNCHANGED <<db_ready, proc, store, memory, ev, sw>>

\* sa_add_chat_id line 517
AdmAddChat(a) ==
    /\ adm[a].pc = "add_chat"
    /\ \E ok \in BOOLEAN :
         IF ok
         THEN /\ protected_chats' = add_protected_chat(protected_chats, adm[a].target)
              /\ adm' = AdmWrite(a, [adm[a] EXCEPT !.pc = "done"])
         ELSE /\ protected_chats' = protected_chats
              /\ adm' = AdmFailed(a)
    /\ UNCHANGED <<db_ready, proc, allowed_members, global_banned, seen_users, join_logs,
                   management_groups, mg_subgroups, mg_settings, memory, ev, sw>>

\* sa_remove_chat_id line 538
AdmRmChat(a) ==
    /\ adm[a].pc = "rm_chat"
    /\ \E ok \in BOOLEAN :
         IF ok
         THEN /\ protected_chats' = remove_protected_chat(protected_chats, adm[a].target)
              /\ adm' = AdmWrite(a, [adm[a] EXCEPT !.pc = "done"])
         ELSE /\ protected_chats' = protected_chats
              /\ adm' = AdmFailed(a)
    /\ UNCHANGED <<db_ready, proc, allowed_members, global_banned, seen_users, join_logs,
                   management_groups, mg_subgroups, mg_settings, memory, ev, sw>>

\* sa_set_mg_owner lines 371-374: mg is the pending value, owner the text
AdmSetMgStart(a, mg, owner) ==
    /\ adm[a].pc = "idle"
    /\ db_ready
    /\ adm' = AdmStep(a, [AdmIdle EXCEPT !.pc = "set_mg", !.cmd = "set_mg",
                                         !.target = mg, !.arg = owner])
    /\ UNCHANGED <<db_ready, proc, store, memory, ev, sw>>

AdmSetMg(a) ==
    /\ adm[a].pc = "set_mg"
    /\ \E ok \in BOOLEAN :
         IF ok
         THEN /\ management_groups' =
                    set_management_group(management_groups, adm[a].target, adm[a].arg)
              /\ hist' = HistOwner(hist, management_groups, adm[a].target,
                                   adm[a].arg)
              /\ adm' = AdmWrite(a, [adm[a] EXCEPT !.pc = "done"])
         ELSE /\ management_groups' = management_groups
              /\ hist' = hist
              /\ adm' = AdmFailed(a)
    /\ UNCHANGED <<db_ready, proc, allowed_members, global_banned, protected_chats,
                   seen_users, join_logs, mg_subgroups, mg_settings, join_events,
                   raid_notified_chats, last_notified, now, ev, sw>>

\* the chat types of an update, and those mg_owner_guard accepts (line 110)
ChatTypes == {"private", "group", "supergroup"}
GroupTypes == {"group", "supergroup"}

\* mg_add_group_id and mg_list_groups enter mg_owner_guard (lines 104-111):
\* user who sends command cmd in the chat mg of type ctype; the guard returns
\* False before any lookup when the store is not ready or the chat is no group
AdmMgStart(a, cmd, who, ctype, mg, sub) ==
    /\ adm[a].pc = "idle"
    /\ adm' = AdmStep(a, [AdmIdle EXCEPT
                            !.pc = IF db_ready /\ ctype \in GroupTypes
                                   THEN "guard" ELSE "done",
                            !.cmd = cmd, !.who = who, !.target = mg,
                            !.arg = sub, !.ctype = ctype])
    /\ UNCHANGED <<db_ready, proc, store, memory, ev, sw>>

\* mg_add_group_id lines 584-593: user who sends subgroup id sub in group chat mg
AdmAddGroupStart(a, who, mg, sub) ==
    AdmMgStart(a, "add_group", who, "supergroup", mg, sub)

\* mutant: every sender counts as a superadmin
is_super_admin_anyone(u) == TRUE

\* bot.py lines 88-89
is_super_admin(u) == u \in AdminIds

\* mg_owner_guard lines 112-113, in a group chat mg with the store ready: the
\* stored owner must be the sender who
mg_owner_guard(t, mg, who) == get_management_group_owner(t, mg) = {who}

\* roles.py lines 10-25, in a group chat mg with the store ready
get_role(t, mg, who) ==
    IF is_super_admin(who) THEN "superadmin"
    ELSE IF get_management_group_owner(t, mg) = {who} THEN "mg_owner"
    ELSE "guest"

\* the program point after a guard that admitted the sender: mg_list_groups
\* line 602, mg_set_addmode lines 613-616 (only ask and all are written),
\* mg_add_group_start line 580 (the state it returns counts only when the
\* conversation called it), mg_add_group_id line 587
AfterGuard(r) ==
    CASE r.cmd = "list_groups"     -> "list_sub"
      [] r.cmd = "addmode"         -> IF r.mode \in {"ask", "all"} THEN "set_mode"
                                                                   ELSE "done"
      [] r.cmd = "add_group_start" -> IF r.via = "conversation" THEN "enter_conv"
                                                                ELSE "done"
      [] OTHER                     -> "add_sub"

\* mg_add_group_id lines 585-586: the guard's lookup may raise
AdmGuard(a) ==
    /\ adm[a].pc = "guard"
    /\ \E ok \in BOOLEAN :
         adm' = IF ~ok THEN AdmFailed(a)
                ELSE AdmStep(a, [adm[a] EXCEPT !.pc =
                        IF mg_owner_guard(management_groups, adm[a].target,
                                          adm[a].who)
                        THEN AfterGuard(adm[a])
                        ELSE "done"])
    /\ UNCHANGED <<db_ready, proc, store, memory, ev, sw>>

\* mg_add_group_id line 594
AdmAddSub(a) ==
    /\ adm[a].pc = "add_sub"
    /\ \E ok \in BOOLEAN :
         IF ok
         THEN /\ mg_subgroups' = add_subgroup(mg_subgroups, adm[a].target, adm[a].arg)
              /\ adm' = AdmWrite(a, [adm[a] EXCEPT !.pc = "done"])
         ELSE /\ mg_subgroups' = mg_subgroups
              /\ adm' = AdmFailed(a)
    /\ UNCHANGED <<db_ready, proc, allowed_members, global_banned, protected_chats,
                   seen_users, join_logs, management_groups, mg_settings, memory, ev, sw>>

\* sa_list_members lines 543-550: a superadmin asks for the allow-list
AdmListMembersStart(a) ==
    /\ adm[a].pc = "idle"
    /\ adm' = AdmStep(a, [AdmIdle EXCEPT
                            !.pc = IF db_ready THEN "list_members" ELSE "done",
                            !.cmd = "list_members"])
    /\ UNCHANGED <<db_ready, proc, store, memory, ev, sw>>

\* sa_list_members lines 550-557: the reply carries list_allowed_members()
AdmListMembers(a) ==
    /\ adm[a].pc = "list_members"
    /\ \E ok \in BOOLEAN :
         adm' = IF ok
                THEN AdmStep(a, [adm[a] EXCEPT
                        !.pc = "done",
                        !.members = list_allowed_members(allowed_members)])
                ELSE AdmFailed(a)
    /\ UNCHANGED <<db_ready, proc, store, memory, ev, sw>>

\* mg_list_groups lines 602-607: the reply carries list_subgroups(mg)
AdmListSub(a) ==
    /\ adm[a].pc = "list_sub"
    /\ \E ok \in BOOLEAN :
         adm' = IF ok
                THEN AdmStep(a, [adm[a] EXCEPT
                        !.pc = "done",
                        !.chats = list_subgroups(mg_subgroups, adm[a].target)])
                ELSE AdmFailed(a)
    /\ UNCHANGED <<db_ready, proc, store, memory, ev, sw>>

\* the handler has returned ConversationHandler.END, or its exception was logged
AdmFinish(a) ==
    /\ adm[a].pc \in {"done", "failed"}
    /\ adm' = AdmStep(a, AdmIdle)
    /\ UNCHANGED <<db_ready, proc, store, memory, ev, sw>>

----------------------------------------------------------------------------
(* Update dispatch: build_application registers the handlers below; the    *)
(* application offers an update to the handlers of group 0 in the order of *)
(* registration and runs the first one that accepts it, then does the same *)
(* in group 1.  An update is a message (plain text, command or anything    *)
(* else) or a button press, sent by user who in chat `chat` of type ctype. *)
(* A text is a keyword, an identifier, both ("keyword id") or neither.     *)

\* the handlers of group 0, lines 1052-1158, in registration order
Handlers ==
    << [type |-> "text",         name |-> "on_farsi_text"],
       [type |-> "command",      name |-> "start"],
       [type |-> "command",      name |-> "help"],
       [type |-> "command",      name |-> "panel"],
       [type |-> "conversation", name |-> "set_mg"],
       [type |-> "conversation", name |-> "add_member"],
       [type |-> "conversation", name |-> "remove_member"],
       [type |-> "conversation", name |-> "ban"],
       [type |-> "conversation", name |-> "unban"],
       [type |-> "conversation", name |-> "add_chat"],
       [type |-> "conversation", name |-> "remove_chat"],
       [type |-> "command",      name |-> "list_members"],
       [type |-> "command",      name |-> "list_chats"],
       [type |-> "conversation", name |-> "add_group"],
       [type |-> "command",      name |-> "list_groups"],
       [type |-> "command",      name |-> "addmode"],
       [type |-> "new_members",  name |-> "on_new_members_message"],
       [type |-> "chat_member",  name |-> "on_chat_member"],
       [type |-> "chat_member",  name |-> "on_chat_member"],
       [type |-> "all",          name |-> "on_any_message_seen"] >>

\* group 1, line 1055
ButtonHandlers == << [type |-> "callback", name |-> "on_callback"] >>

NoHandler == [type |-> "none", name |-> "none"]

\* the conversation `name` waits for the next message of user who in chat c
Waiting(conv, name, c, who) ==
    \E k \in conv : k[1] = name /\ k[2] = c /\ k[3] = who

\* the filter of each handler: TEXT & ~COMMAND, CommandHandler(name), a
\* ConversationHandler (the state handler TEXT & ~COMMAND while the key
\* (chat, user) is in a state, else the entry command), the join filters,
\* ALL & ~NEW_CHAT_MEMBERS, and CallbackQueryHandler
check_update(h, upd, conv) ==
    CASE h.type = "text"         -> upd.kind = "text"
      [] h.type = "command"      -> upd.kind = "command" /\ upd.text.kw = h.name
      [] h.type = "conversation" ->
            IF Waiting(conv, h.name, upd.chat, upd.who)
            THEN upd.kind = "text"
            ELSE upd.kind = "command" /\ upd.text.kw = h.name
      [] h.type = "all"          -> upd.kind \in {"text", "command", "other"}
      [] OTHER                   -> upd.kind = h.type

RECURSIVE FirstMatch(_, _, _)
FirstMatch(hs, upd, conv) ==
    IF hs = <<>> THEN NoHandler
    ELSE IF check_update(Head(hs), upd, conv) THEN Head(hs)
    ELSE FirstMatch(Tail(hs), upd, conv)

\* the handler that runs for upd: no update is accepted in both groups
Dispatch(upd, conv) ==
    IF FirstMatch(Handlers, upd, conv) # NoHandler
    THEN FirstMatch(Handlers, upd, conv)
    ELSE FirstMatch(ButtonHandlers, upd, conv)

\* str.isdigit() on a normalised text: the text is one identifier
isdigit(text) == text.kw = "none" /\ text.id # 0

\* the superadmin keywords of on_farsi_text that take an identifier
InlineKeywords ==
    {"add_member", "remove_member", "ban", "unban", "add_chat", "remove_chat"}

\* the task that handles upd, before its first step
Task(upd, h) ==
    [AdmIdle EXCEPT !.who = upd.who, !.ctype = upd.ctype, !.chat = upd.chat,
                    !.kind = upd.kind, !.text = upd.text, !.mode = upd.mode,
                    !.via = h.type]

\* a second-step handler (sa_add_member_ref ... sa_remove_chat_id) reads text:
\* it acts on an identifier and answers anything else with a prompt
SecondStep(r, cmd, text) ==
    IF isdigit(text)
    THEN [r EXCEPT !.pc = FirstPc(cmd), !.cmd = cmd, !.target = text.id]
    ELSE [r EXCEPT !.pc = "done", !.cmd = cmd]

\* a handler that starts with mg_owner_guard: lines 104-111 return False
\* without a lookup when the store or the chat type rules the sender out
GuardStep(r, cmd) ==
    [r EXCEPT !.pc = IF db_ready /\ r.ctype \in GroupTypes THEN "guard" ELSE "done",
              !.cmd = cmd, !.target = r.chat]

\* on_callback line 663 and on_farsi_text line 776 apply mg_owner_guard before
\* they call the handler, which applies it again
RouterStep(r, cmd) ==
    [r EXCEPT !.pc = IF db_ready /\ r.ctype \in GroupTypes THEN "router_guard"
                                                           ELSE "done",
              !.cmd = cmd, !.target = r.chat]

\* super_admin_guard, lines 92-97: a private chat and a superadmin
super_admin_guard(r) == r.ctype = "private" /\ is_super_admin(r.who)

\* the first step of the handler h chosen for upd
Route(h, upd) ==
    LET r == Task(upd, h)
    IN  CASE h.type = "text" -> [r EXCEPT !.pc = "farsi"]
          [] h.type = "command" /\ h.name = "list_members" ->
                [r EXCEPT !.pc = IF super_admin_guard(r) /\ db_ready
                                 THEN "list_members" ELSE "done",
                          !.cmd = "list_members"]
          [] h.type = "command" /\ h.name \in {"list_groups", "addmode"} ->
                GuardStep(r, h.name)
          [] h.type = "conversation" /\ upd.kind = "text" ->
                SecondStep(r, h.name, upd.text)
          [] h.type = "conversation" /\ upd.kind = "command"
                                     /\ h.name = "add_group" ->
                GuardStep(r, "add_group_start")
          [] h.type = "callback" -> RouterStep(r, "addmode")
          [] OTHER -> [r EXCEPT !.pc = "done", !.cmd = h.name]

\* the conversation states after the handler h chosen for upd has returned:
\* a guarded start function (sa_*_start) puts the key in its state, a
\* second-step handler that got an identifier ends the conversation
Conversations(h, upd, conv) ==
    IF h.type # "conversation" \/ h.name = "add_group" THEN conv
    ELSE IF upd.kind = "command"
    THEN IF super_admin_guard(Task(upd, h)) /\ db_ready
         THEN conv \cup {<<h.name, upd.chat, upd.who>>} ELSE conv
    ELSE IF isdigit(upd.text) /\ h.name # "set_mg"
    THEN conv \ {<<h.name, upd.chat, upd.who>>} ELSE conv

\* Application.process_update for one update
ProcessUpdate(a, upd) ==
    /\ adm[a].pc = "idle"
    /\ LET h == Dispatch(upd, proc.conv)
       IN  IF h.type = "all"
           THEN SeenStart(upd.chat, upd.who, upd.ctype)
           ELSE /\ adm' = AdmStep(a, Route(h, upd))
                /\ proc' = [proc EXCEPT !.conv = Conversations(h, upd, @)]
                /\ UNCHANGED <<db_ready, store, memory, ev, sw>>

\* on_farsi_text lines 692-773 for a superadmin in a private chat.  A keyword
\* alone calls the start function, whose prompt is the whole effect (the state
\* it returns is dropped).  "add member id" hands the unchanged message to
\* sa_add_member_ref; "remove member id" assigns to properties of a new Update
\* (lines 722-724), which raises; the other keywords assign the identifier to
\* msg.text, which raises when the library's message objects are frozen.
FarsiSuperAdmin(r, frozen) ==
    LET kw   == r.text.kw
        rest == [kw |-> "none", id |-> r.text.id]
    IN  IF kw = "list_members" THEN [r EXCEPT !.pc = "list_members", !.cmd = kw]
        ELSE IF kw \notin InlineKeywords \/ r.text.id = 0
        THEN [r EXCEPT !.pc = "done", !.cmd = kw]
        ELSE IF kw = "add_member" THEN SecondStep(r, kw, r.text)
        ELSE IF kw = "remove_member" \/ frozen
        THEN [r EXCEPT !.pc = "failed", !.cmd = kw]
        ELSE SecondStep(r, kw, rest)

\* the keywords the superadmin branch of on_farsi_text returns on.  The text
\* is compared after normalize_fa (lines 116-123) has replaced every
\* zero-width non-joiner by a space, so the two keywords written with one
\* (list chats, line 771, and list subgroups, line 786) match no text.
SuperAdminKeywords ==
    InlineKeywords \cup {"panel", "help", "set_mg", "list_members"}

\* on_farsi_text lines 776-795: any other text goes to mg_owner_guard
FarsiOwner(r) ==
    RouterStep(r, CASE r.text.kw = "add_group" -> "add_group_start"
                    [] r.text.kw = "addmode"   -> "addmode"
                    [] OTHER                   -> "none")

\* on_farsi_text
FarsiText(a) ==
    /\ adm[a].pc = "farsi"
    /\ \E frozen \in BOOLEAN :
         adm' = AdmStep(a,
                   IF super_admin_guard(adm[a])
                        /\ adm[a].text.kw \in SuperAdminKeywords
                   THEN FarsiSuperAdmin(adm[a], frozen)
                   ELSE FarsiOwner(adm[a]))
    /\ UNCHANGED <<db_ready, proc, store, memory, ev, sw>>

\* the guard of on_callback (for a button "mg:addmode:<mode>") and of
\* on_farsi_text; a text that is no owner command ends the handler
RouterGuard(a) ==
    /\ adm[a].pc = "router_guard"
    /\ \E ok \in BOOLEAN :
         adm' = IF ~ok THEN AdmFailed(a)
                ELSE AdmStep(a, [adm[a] EXCEPT !.pc =
                        IF mg_owner_guard(management_groups, adm[a].target,
                                          adm[a].who) /\ adm[a].cmd # "none"
                        THEN "guard" ELSE "done"])
    /\ UNCHANGED <<db_ready, proc, store, memory, ev, sw>>

\* mg_add_group_start lines 577-581: the conversation waits for the subgroup id
MgAddGroupStart(a) ==
    /\ adm[a].pc = "enter_conv"
    /\ adm' = AdmStep(a, [adm[a] EXCEPT !.pc = "done"])
    /\ proc' = [proc EXCEPT
                  !.conv = @ \cup {<<"add_group", adm[a].chat, adm[a].who>>}]
    /\ UNCHANGED <<db_ready, store, memory, ev, sw>>

\* mg_set_addmode line 618
AdmSetMode(a) ==
    /\ adm[a].pc = "set_mode"
    /\ \E ok \in BOOLEAN :
         IF ok
         THEN /\ mg_settings' =
                    set_add_member_mode(mg_settings, adm[a].target, adm[a].mode)
              /\ adm' = AdmWrite(a, [adm[a] EXCEPT !.pc = "done"])
         ELSE /\ mg_settings' = mg_settings
              /\ adm' = AdmFailed(a)
    /\ UNCHANGED <<db_ready, proc, allowed_members, global_banned, protected_chats,
                   seen_users, join_logs, management_groups, mg_subgroups, memory,
                   ev, sw>>

----------------------------------------------------------------------------
(* Specifications                                                          *)

\* The process has just started: the in-memory maps are empty and no task
\* runs.  The store outlives the process, so the registry tables hold what
\* earlier runs left in them; room 1 may be protected, room 2 is not (two
\* protected rooms are the matter of SpecRaid and SpecSweep).
Init ==
    /\ db_ready \in BOOLEAN
    /\ allowed_members \in [Users -> {Absent, NoProfile}]
    /\ global_banned \in SUBSET Users
    /\ protected_chats \in {{}, {1}}
    /\ seen_users = [c \in Rooms |-> <<>>]
    /\ join_logs = <<>>
    /\ management_groups = {}
    /\ mg_subgroups = <<>>
    /\ mg_settings = {}
    /\ join_events = [c \in Rooms |-> <<>>]
    /\ raid_notified_chats = {}
    /\ last_notified = [k \in Rooms \X Users |-> 0]
    /\ now = StartTime
    /\ ev = EvIdle
    /\ sw = SwIdle
    /\ adm = [a \in AdminSlots |-> AdmIdle]
    /\ hist = HistInit
    /\ proc = ProcStarted(db_ready)

\* the new_chat_members lists of the updates
MemberLists == {<<0>>, <<1>>, <<2>>, <<0, 1>>, <<1, 2>>}

RECURSIVE SumLen(_, _)
SumLen(f, S) ==
    IF S = {} THEN 0 ELSE LET c == Min(S) IN Len(f[c]) + SumLen(f, S \ {c})

\* join updates are accepted while the raid windows hold fewer than MaxJoins joins
JoinBudget == SumLen(join_events, Rooms) < MaxJoins

\* a join update arrives
LiveStart ==
    \/ \E c \in Rooms, ms \in MemberLists : JoinBudget /\ NewMembersStart(c, ms)
    \/ \E c \in Rooms, u \in Ids, old \in {"left", "member"}, new \in {"member", "left"} :
          JoinBudget /\ ChatMemberStart(c, u, old, new)

\* the handler of the update in progress resumes after an await
LiveSteps ==
    \/ HandlerProtected
    \/ EnforceEnter
    \/ EnforceMark
    \/ EnforcePrecheck
    \/ EnforceGb
    \/ EnforceBanGb
    \/ EnforceAl
    \/ EnforceBanNa
    \/ EnforceNotify
    \/ EnforceLog
    \/ EnforceReturn
    \/ HandlerFinish

\* the sweep in progress resumes after an await
SweepSteps ==
    \/ SweepList
    \/ SweepAdmins
    \/ SweepSeen
    \/ SweepGb
    \/ SweepAl
    \/ SweepPrecheck
    \/ SweepBan
    \/ SweepNotify
    \/ SweepAdvance
    \/ SweepFinish

AdmQuiet == \A a \in AdminSlots : adm[a].pc = "idle"

\* Spec: the handler of a join update and the sweep, each run to completion
\* (one task at a time), from every allow-list and ban-list the store may
\* hold.
Next ==
    \/ (sw.pc = "idle" /\ LiveStart)
    \/ LiveSteps
    \/ (ev.pc = "idle" /\ SweepStart)
    \/ SweepSteps

Spec == Init /\ [][Next]_vars

\* SpecHier: management groups and their subgroups, with the join handler and
\* the sweep; one task at a time.  Nobody is allow-listed.
InitHier ==
    /\ db_ready = TRUE
    /\ allowed_members = [u \in Users |-> Absent]
    /\ global_banned \in {{}, {2}}
    /\ protected_chats \in {{}, {1}}
    /\ seen_users = [c \in Rooms |-> <<>>]
    /\ join_logs = <<>>
    /\ management_groups = {}
    /\ mg_subgroups = <<>>
    /\ mg_settings = {}
    /\ join_events = [c \in Rooms |-> <<>>]
    /\ raid_notified_chats = {}
    /\ last_notified = [k \in Rooms \X Users |-> 0]
    /\ now = StartTime
    /\ ev = EvIdle
    /\ sw = SwIdle
    /\ adm = [a \in AdminSlots |-> AdmIdle]
    /\ hist = HistInit
    /\ proc = ProcStarted(db_ready)

MgStart ==
    \/ \E owner \in Users : AdmSetMgStart(1, 1, owner)
    \/ \E who \in {1, 8}, sub \in Rooms : AdmAddGroupStart(1, who, 1, sub)

MgSteps ==
    \/ AdmSetMg(1)
    \/ AdmGuard(1)
    \/ AdmAddSub(1)
    \/ AdmFinish(1)

NextHier ==
    \/ (sw.pc = "idle" /\ AdmQuiet /\ LiveStart)
    \/ LiveSteps
    \/ (ev.pc = "idle" /\ AdmQuiet /\ SweepStart)
    \/ SweepSteps
    \/ (ev.pc = "idle" /\ sw.pc = "idle" /\ MgStart)
    \/ MgSteps

SpecHier == InitHier /\ [][NextHier]_vars

\* SpecMg: the management-group commands alone, one at a time: a superadmin
\* sets the owner of a management group, and users (an owner, a stranger, a
\* superadmin) send add_group and list_groups in chats of every type.
Mgs == {1, 2}
MgActors == Users \cup {8}

InitMg ==
    /\ db_ready \in BOOLEAN
    /\ allowed_members = [u \in Users |-> Absent]
    /\ global_banned = {}
    /\ protected_chats = {}
    /\ seen_users = [c \in Rooms |-> <<>>]
    /\ join_logs = <<>>
    /\ management_groups = {}
    /\ mg_subgroups = <<>>
    /\ mg_settings = {}
    /\ join_events = [c \in Rooms |-> <<>>]
    /\ raid_notified_chats = {}
    /\ last_notified = [k \in Rooms \X Users |-> 0]
    /\ now = StartTime
    /\ ev = EvIdle
    /\ sw = SwIdle
    /\ adm = [a \in AdminSlots |-> AdmIdle]
    /\ hist = HistInit
    /\ proc = ProcStarted(db_ready)

NextMg ==
    \/ \E mg \in Mgs, owner \in Users : AdmSetMgStart(1, mg, owner)
    \/ \E cmd \in {"add_group", "list_groups"}, who \in MgActors,
          ctype \in ChatTypes, mg \in Mgs, sub \in Rooms :
          AdmMgStart(1, cmd, who, ctype, mg, sub)
    \/ AdmSetMg(1)
    \/ AdmGuard(1)
    \/ AdmAddSub(1)
    \/ AdmListSub(1)
    \/ AdmFinish(1)

SpecMg == InitMg /\ [][NextMg]_vars

\* SpecAdmin: two admin commands in flight at once (webhook mode hands every
\* update to the event loop as its own task), from every allow/ban registry.
InitAdmin ==
    /\ db_ready = TRUE
    /\ allowed_members \in [Users -> {Absent, NoProfile}]
    /\ global_banned \in SUBSET Users
    /\ protected_chats = {1}
    /\ seen_users = [c \in Rooms |-> <<>>]
    /\ join_logs = <<>>
    /\ management_groups = {}
    /\ mg_subgroups = <<>>
    /\ mg_settings = {}
    /\ join_events = [c \in Rooms |-> <<>>]
    /\ raid_notified_chats = {}
    /\ last_notified = [k \in Rooms \X Users |-> 0]
    /\ now = StartTime
    /\ ev = EvIdle
    /\ sw = SwIdle
    /\ adm = [a \in AdminSlots |-> AdmIdle]
    /\ hist = HistInit
    /\ proc = ProcStarted(db_ready)

MemberCommands == {"add_member", "remove_member", "ban", "unban"}

AdminSteps(a) ==
    \/ AdmRmAllowed(a)
    \/ AdmAddBan(a)
    \/ AdmRmBan(a)
    \/ AdmUpsert(a)
    \/ AdmList(a)
    \/ AdmPlatform(a)
    \/ AdmFinish(a)

NextAdmin ==
    \E a \in AdminSlots :
        \/ \E cmd \in MemberCommands, t \in Users : AdmStart(a, cmd, t, NoProfile)
        \/ AdminSteps(a)

SpecAdmin == InitAdmin /\ [][NextAdmin]_vars

\* time.time() moves on by d seconds
Tick(d) ==
    /\ now' = now + d
    /\ UNCHANGED <<db_ready, proc, store, join_events, raid_notified_chats,
                   last_notified, ev, sw, adm, hist>>

\* SpecAllow: the allow-list commands of a superadmin, one at a time, on an
\* empty allow-list: add_member with the profile resolve_user_ref returned
\* (none for a numeric reference), remove_member (which also bans), and the
\* listing.
Profiles == {NoProfile, <<"ann", "Ann", "None">>}

InitAllow ==
    /\ db_ready = TRUE
    /\ allowed_members = [u \in Users |-> Absent]
    /\ global_banned = {}
    /\ protected_chats \in {{}, {1}}
    /\ seen_users = [c \in Rooms |-> <<>>]
    /\ join_logs = <<>>
    /\ management_groups = {}
    /\ mg_subgroups = <<>>
    /\ mg_settings = {}
    /\ join_events = [c \in Rooms |-> <<>>]
    /\ raid_notified_chats = {}
    /\ last_notified = [k \in Rooms \X Users |-> 0]
    /\ now = StartTime
    /\ ev = EvIdle
    /\ sw = SwIdle
    /\ adm = [a \in AdminSlots |-> AdmIdle]
    /\ hist = HistInit
    /\ proc = ProcStarted(db_ready)

NextAllow ==
    \/ \E t \in Users, prof \in Profiles : AdmStart(1, "add_member", t, prof)
    \/ \E t \in Users : AdmStart(1, "remove_member", t, NoProfile)
    \/ AdmListMembersStart(1)
    \/ AdmUpsert(1)
    \/ AdmRmAllowed(1)
    \/ AdmAddBan(1)
    \/ AdmList(1)
    \/ AdmPlatform(1)
    \/ AdmListMembers(1)
    \/ AdmFinish(1)

SpecAllow == InitAllow /\ [][NextAllow]_vars

\* SpecNotify: room 1 has registered RAID_THRESHOLD_JOINS - 1 joins within the
\* current window, so the next join update raises the raid alert; its
\* members are then enforced, and the sweep runs between the updates.
Repeat(x, n) == [i \in 1..n |-> x]

InitNotify ==
    /\ db_ready = TRUE
    /\ allowed_members = [u \in Users |-> Absent]
    /\ global_banned \in {{}, {2}}
    /\ protected_chats = {1}
    /\ seen_users = [c \in Rooms |-> <<>>]
    /\ join_logs = <<>>
    /\ management_groups = {}
    /\ mg_subgroups = <<>>
    /\ mg_settings = {}
    /\ join_events = [c \in Rooms |->
          IF c = 1 THEN Repeat(StartTime, RAID_THRESHOLD_JOINS - 1) ELSE <<>>]
    /\ raid_notified_chats = {}
    /\ last_notified = [k \in Rooms \X Users |-> 0]
    /\ now = StartTime
    /\ ev = EvIdle
    /\ sw = SwIdle
    /\ adm = [a \in AdminSlots |-> AdmIdle]
    /\ hist = [HistInit EXCEPT !.joins[1] = join_events[1],
                               !.peak[1] = RAID_THRESHOLD_JOINS - 2]
    /\ proc = ProcStarted(db_ready)

\* join updates are accepted while fewer than MaxJoins have been handled
NotifyBudget == Len(join_events[1]) < RAID_THRESHOLD_JOINS - 1 + MaxJoins

NextNotify ==
    \/ \E ms \in {<<1>>, <<1, 2>>} :
          sw.pc = "idle" /\ NotifyBudget /\ NewMembersStart(1, ms)
    \/ RaidNotify
    \/ LiveSteps
    \/ (ev.pc = "idle" /\ SweepStart)
    \/ SweepSteps

SpecNotify == InitNotify /\ [][NextNotify]_vars

\* SpecBoot: the process from main() on: the configuration is read, the
\* application starts in one of the two run modes, and then updates (joins,
\* messages) are handled and the job queue fires the sweep when it is due,
\* one task at a time.  The store holds what earlier runs left in it.
BootTimes == {StartTime + k * SWEEP_INTERVAL : k \in 0..2}

InitBoot ==
    /\ db_ready = FALSE
    /\ proc = ProcBoot
    /\ allowed_members = [u \in Users |-> Absent]
    /\ global_banned \in {{}, {2}}
    /\ protected_chats = {1}
    /\ seen_users = [c \in Rooms |-> <<>>]
    /\ join_logs = <<>>
    /\ management_groups = {}
    /\ mg_subgroups = <<>>
    /\ mg_settings = {}
    /\ join_events = [c \in Rooms |-> <<>>]
    /\ raid_notified_chats = {}
    /\ last_notified = [k \in Rooms \X Users |-> 0]
    /\ now = StartTime
    /\ ev = EvIdle
    /\ sw = SwIdle
    /\ adm = [a \in AdminSlots |-> AdmIdle]
    /\ hist = HistInit

Up == proc.phase = "running"

NextBoot ==
    \/ BootConfig
    \/ BootLocal
    \/ BootServer
    \/ (Up /\ ev.pc = "idle" /\ sw.pc = "idle"
           /\ now + SWEEP_INTERVAL \in BootTimes /\ Tick(SWEEP_INTERVAL))
    \/ JobFire
    \/ SweepSteps
    \/ (Up /\ sw.pc = "idle" /\ LiveStart)
    \/ LiveSteps
    \/ \E c \in Rooms, u \in Users, ctype \in {"private", "supergroup"} :
          Up /\ sw.pc = "idle" /\ SeenStart(c, u, ctype)
    \/ SeenProtected
    \/ SeenMark

SpecBoot == InitBoot /\ [][NextBoot]_vars

\* SpecRace: one unban or remove-member command in flight while the sweep or a
\* join handler runs; user 1 has been seen in the protected room 1.
InitRace ==
    /\ db_ready = TRUE
    /\ allowed_members \in {[u \in Users |-> Absent], [u \in Users |-> NoProfile]}
    /\ global_banned \in {{}, {1}}
    /\ protected_chats = {1}
    /\ seen_users = [c \in Rooms |-> IF c = 1 THEN <<1>> ELSE <<>>]
    /\ join_logs = <<>>
    /\ management_groups = {}
    /\ mg_subgroups = <<>>
    /\ mg_settings = {}
    /\ join_events = [c \in Rooms |-> <<>>]
    /\ raid_notified_chats = {}
    /\ last_notified = [k \in Rooms \X Users |-> 0]
    /\ now = StartTime
    /\ ev = EvIdle
    /\ sw = SwIdle
    /\ adm = [a \in AdminSlots |-> AdmIdle]
    /\ hist = HistInit
    /\ proc = ProcStarted(db_ready)

\* the admin command interleaves with the sweep job and with a join handler
NextRace ==
    \/ \E cmd \in {"remove_member", "unban"} : AdmStart(1, cmd, 1, NoProfile)
    \/ AdminSteps(1)
    \/ (ev.pc = "idle" /\ SweepStart)
    \/ SweepSteps
    \/ (sw.pc = "idle" /\ LiveStart)
    \/ LiveSteps

SpecRace == InitRace /\ [][NextRace]_vars

\* SpecRaid: join updates of an allow-listed user in two protected rooms while
\* the clock advances by whole raid windows; room 1 takes up to MaxRaidJoins
\* joins, the other room one.
InitRaid ==
    /\ db_ready = TRUE
    /\ allowed_members = [u \in Users |-> NoProfile]
    /\ global_banned = {}
    /\ protected_chats = Rooms
    /\ seen_users = [c \in Rooms |-> <<>>]
    /\ join_logs = <<>>
    /\ management_groups = {}
    /\ mg_subgroups = <<>>
    /\ mg_settings = {}
    /\ join_events = [c \in Rooms |-> <<>>]
    /\ raid_notified_chats = {}
    /\ last_notified = [k \in Rooms \X Users |-> 0]
    /\ now = StartTime
    /\ ev = EvIdle
    /\ sw = SwIdle
    /\ adm = [a \in AdminSlots |-> AdmIdle]
    /\ hist = HistInit
    /\ proc = ProcStarted(db_ready)

RaidBudget(c) ==
    IF c = 1 THEN Len(hist.joins[c]) < MaxRaidJoins ELSE hist.joins[c] = <<>>

NextRaid ==
    \/ (ev.pc = "idle" /\ now + RAID_WINDOW_SECONDS \in RaidTimes
                        /\ Tick(RAID_WINDOW_SECONDS))
    \/ \E c \in Rooms : RaidBudget(c) /\ NewMembersStart(c, <<1>>)
    \/ \E c \in Rooms : RaidBudget(c) /\ ChatMemberStart(c, 1, "left", "member")
    \/ HandlerProtected
    \/ RaidNotify
    \/ EnforceEnter
    \/ EnforceMark
    \/ EnforcePrecheck
    \/ EnforceGb
    \/ EnforceAl
    \/ EnforceReturn
    \/ HandlerFinish

SpecRaid == InitRaid /\ [][NextRaid]_vars

\* SpecSweep: repeated sweeps of two protected rooms whose seen sets already
\* hold users (user 2 in both rooms), from every allow/ban registry, while the
\* clock advances by half cooldown intervals.
InitSweep ==
    /\ db_ready = TRUE
    /\ allowed_members \in [Users -> {Absent, NoProfile}]
    /\ global_banned \in SUBSET Users
    /\ protected_chats = Rooms
    /\ seen_users = [c \in Rooms |-> IF c = 1 THEN <<1, 2>> ELSE <<2>>]
    /\ join_logs = <<>>
    /\ management_groups = {}
    /\ mg_subgroups = <<>>
    /\ mg_settings = {}
    /\ join_events = [c \in Rooms |-> <<>>]
    /\ raid_notified_chats = {}
    /\ last_notified = [k \in Rooms \X Users |-> 0]
    /\ now = StartTime
    /\ ev = EvIdle
    /\ sw = SwIdle
    /\ adm = [a \in AdminSlots |-> AdmIdle]
    /\ hist = HistInit
    /\ proc = ProcStarted(db_ready)

NextSweep ==
    \/ (now + HalfCooldown \in SweepTimes /\ Tick(HalfCooldown))
    \/ SweepStart
    \/ SweepSteps

SpecSweep == InitSweep /\ [][NextSweep]_vars

\* SpecEvict: users 1 and 2 were admitted to the protected room 1
\* (allow-listed, seen); a superadmin may then ban or remove user 1, the
\* command starting between two runs of the sweep.  No join update arrives.
\* The sweep job is rescheduled for ever, every awaited call returns, and a
\* call that is attempted again and again eventually succeeds.
InitEvict ==
    /\ db_ready = TRUE
    /\ allowed_members = [u \in Users |-> NoProfile]
    /\ global_banned = {}
    /\ protected_chats = {1}
    /\ seen_users = [c \in Rooms |-> IF c = 1 THEN <<2, 1>> ELSE <<>>]
    /\ join_logs = <<>>
    /\ management_groups = {}
    /\ mg_subgroups = <<>>
    /\ mg_settings = {}
    /\ join_events = [c \in Rooms |-> <<>>]
    /\ raid_notified_chats = {}
    /\ last_notified = [k \in Rooms \X Users |-> 0]
    /\ now = StartTime
    /\ ev = EvIdle
    /\ sw = SwIdle
    /\ adm = [a \in AdminSlots |-> AdmIdle]
    /\ hist = HistInit
    /\ proc = ProcStarted(db_ready)

NextEvict ==
    \/ \E cmd \in {"ban", "remove_member"} :
          sw.pc = "idle" /\ AdmStart(1, cmd, 1, NoProfile)
    \/ AdmRmAllowed(1)
    \/ AdmAddBan(1)
    \/ AdmList(1)
    \/ AdmPlatform(1)
    \/ AdmFinish(1)
    \/ SweepStart
    \/ SweepSteps

\* the awaited call of the sweep returns a result, for room c and candidate u
SweepGbSucceeds(c, u) ==
    SweepGb /\ SwChat = c /\ SwUser = u /\ sw'.inv.gb # "err"

SweepAlSucceeds(c, u) ==
    SweepAl /\ SwChat = c /\ SwUser = u /\ sw'.inv.al # "err"

SweepBanSucceeds(c, u) ==
    SweepBan /\ SwChat = c /\ SwUser = u /\ sw'.inv.banOk

FairSweep ==
    /\ WF_vars(SweepStart)
    /\ WF_vars(SweepSteps)
    /\ SF_vars(SweepList /\ sw'.pc = "admins")
    /\ SF_vars(SweepAdmins /\ sw'.pc = "seen")
    /\ SF_vars(SweepSeen /\ sw'.pc = "gb")
    /\ \A u \in Users :
          /\ SF_vars(SweepGbSucceeds(1, u))
          /\ SF_vars(SweepAlSucceeds(1, u))
          /\ SF_vars(SweepBanSucceeds(1, u))

\* an admin command that has started runs to its end
FairAdmin ==
    WF_vars(AdmRmAllowed(1) \/ AdmAddBan(1) \/ AdmList(1) \/ AdmPlatform(1)
            \/ AdmFinish(1))

SpecEvict == InitEvict /\ [][NextEvict]_vars /\ FairSweep /\ FairAdmin

----------------------------------------------------------------------------
(* Properties of one enforce_user invocation and one sweep candidate       *)

EvFinished == ev.pc = "ret"
SwFinished == sw.pc = "cret"

BannedRecord(c, u) == [chat_id |-> c, user_id |-> u, action_taken |-> "banned"]

\* the invocation appended exactly one JoinLog row, "banned", for its pair
EvLoggedOnce ==
    /\ Len(join_logs) = ev.inv.logsPre + 1
    /\ join_logs[Len(join_logs)] = BannedRecord(ev.chat, EvUser)

EvLoggedNothing == Len(join_logs) = ev.inv.logsPre

\* C1 (ban precedence): an invocation of enforce_user, or a sweep candidate
\* (never an administrator), that finishes for a user who is both globally
\* banned and allow-listed has issued one ban call, unless the pre-check
\* reported "kicked" (a store failure ends the evaluation before the ban).
BanPrecedence ==
    /\ ( /\ EvFinished
         /\ ev.inv.status \in {"member", "lookup_error"}
         /\ ev.inv.out # "store_error"
         /\ Banned(EvUser) /\ Allowed(EvUser) )
       => ev.inv.bans = 1
    /\ ( /\ SwFinished
         /\ sw.inv.out \notin {"store_error", "kicked"}
         /\ Banned(SwUser) /\ Allowed(SwUser) )
       => sw.inv.bans = 1

BanPrecedenceWitness ==
    /\ SwFinished
    /\ Banned(SwUser) /\ Allowed(SwUser)
    /\ sw.inv.status = "member"
    /\ sw.inv.bans = 1

\* C2 (default deny): an invocation for a user who is neither globally banned
\* nor allow-listed, not the bot and not reported kicked, whose store calls
\* succeed, issues one ban call; when the ban succeeds it appends exactly one
\* JoinLog row "banned" for the pair and attempts a message to every
\* superadmin, and when the ban fails it appends none.
DefaultDeny ==
    ( /\ EvFinished
      /\ ev.inv.status \in {"member", "lookup_error"}
      /\ ev.inv.out # "store_error"
      /\ ~Banned(EvUser) /\ ~Allowed(EvUser) )
    => /\ ev.inv.bans = 1
       /\ ev.inv.banOk => (EvLoggedOnce /\ ev.inv.attempted = AdminIds)
       /\ ~ev.inv.banOk => (EvLoggedNothing /\ ev.inv.attempted = {})

DefaultDenyWitness ==
    /\ EvFinished
    /\ ~Banned(EvUser) /\ ~Allowed(EvUser)
    /\ ev.inv.banOk
    /\ EvLoggedOnce
    /\ ev.inv.attempted = AdminIds

\* C3 (global-ban step), as claimed: a finished invocation that banned a
\* globally banned user has appended a JoinLog row "banned" and attempted the
\* ban notification, and has not read the allow-list.
GlobalBanStep ==
    (EvFinished /\ ev.inv.out = "gban" /\ ev.inv.banOk)
    => /\ ev.inv.bans = 1
       /\ EvLoggedOnce
       /\ ev.inv.attempted = AdminIds
       /\ ev.inv.al = "none"

\* C4 (allowed join): a finished invocation for a user who is allow-listed
\* and not globally banned (store calls succeeding) has issued no ban call,
\* sent no notification, appended no JoinLog row, and the pair is in the
\* seen set.
AllowedJoin ==
    ( /\ EvFinished
      /\ ev.inv.out \notin {"self", "not_ready", "store_error"}
      /\ ~Banned(EvUser) /\ Allowed(EvUser) )
    => /\ ev.inv.bans = 0
       /\ ev.inv.attempted = {}
       /\ EvLoggedNothing
       /\ EvUser \in Range(seen_users[ev.chat])

AllowedJoinWitness ==
    /\ EvFinished
    /\ ev.inv.out = "allow"
    /\ ~Banned(EvUser) /\ Allowed(EvUser)
    /\ EvUser \in Range(seen_users[ev.chat])

\* C5 (idempotence guard): when the pre-check of an invocation, or of a sweep
\* candidate, reports "kicked", it issues no ban call, sends no notification
\* and appends no JoinLog row; the sweep leaves the cooldown map untouched.
IdempotenceGuard ==
    /\ (ev.pc \notin {"idle", "protected", "hret"} /\ ev.inv.status = "kicked")
       => /\ EvFinished
          /\ ev.inv.bans = 0
          /\ ev.inv.attempted = {}
          /\ EvLoggedNothing
    /\ (sw.pc # "idle" /\ sw.inv.status = "kicked")
       => /\ SwFinished
          /\ sw.inv.bans = 0
          /\ sw.inv.attempted = {}
          /\ ~sw.inv.notified

IdempotenceGuardWitness ==
    /\ EvFinished
    /\ ev.inv.status = "kicked"
    /\ Banned(EvUser)
    /\ ev.inv.bans = 0

\* C6 as claimed: on the outcomes already kicked, globally banned and not
\* allow-listed the invocation leaves the seen set of the room as it found it.
SeenOnlyOnAllow ==
    (EvFinished /\ ev.inv.out \in {"kicked", "gban", "not_allowed"})
    => seen_users[ev.chat] = ev.inv.seenPre

\* C6 amended: mark_seen is the first call of the invocation, before the
\* pre-check: at every later call point and on every outcome (already kicked,
\* globally banned, not allow-listed, allowed) the user is the most recent
\* entry of the room's seen set, which is otherwise as the invocation found it.
EnforceCallPoints == {"precheck", "gb", "ban_gb", "al", "ban_na", "notify", "log"}

SeenMarkedFirst ==
    ( \/ ev.pc \in EnforceCallPoints
      \/ (EvFinished /\ ev.inv.out \in {"kicked", "gban", "not_allowed", "allow"}) )
    => seen_users[ev.chat] = <<EvUser>> \o Without(ev.inv.seenPre, EvUser)

SeenMarkedFirstWitness ==
    /\ EvFinished
    /\ ev.inv.out = "gban"
    /\ EvUser \notin Range(ev.inv.seenPre)
    /\ Head(seen_users[ev.chat]) = EvUser

\* C7 (never self-enforce): an invocation for the bot's own id is never at a
\* store or platform call, finishes having made none, and the bot is in no
\* seen set.
NeverSelfEnforce ==
    /\ (ev.pc \in EnforceCallPoints \cup {"mark"}) => EvUser # BotId
    /\ (EvFinished /\ EvUser = BotId)
       => (ev.inv.calls = 0 /\ ev.inv.out = "self" /\ EvLoggedNothing)
    /\ \A c \in Rooms : BotId \notin Range(seen_users[c])

NeverSelfEnforceWitness ==
    /\ EvFinished
    /\ EvUser = BotId
    /\ ev.inv.calls = 0
    /\ is_protected_chat(protected_chats, ev.chat)

----------------------------------------------------------------------------
(* Properties of the registry and of the admin commands                    *)

\* the rooms registered as a subgroup of some management group
Subgroups == {r[2] : r \in Range(mg_subgroups)}

\* C8 (protected-room definition), as claimed: a room registered through
\* add_subgroup is protected: a join update of that room is enforced, and a
\* sweep that has listed its rooms has listed every subgroup.
SubgroupProtected ==
    /\ (ev.pc = "hret" /\ ev.join /\ ev.hres # "raised" /\ ev.chat \in Subgroups)
       => ev.hres = "enforced"
    /\ (sw.pc \notin {"idle", "list"}) => Subgroups \subseteq sw.listed

\* C9 (unban postcondition): when sa_unban_id has completed for u and no other
\* admin command wrote the registry meanwhile, u is not globally banned and
\* is allow-listed.
UnbanPostcondition ==
    \A a \in AdminSlots :
        (adm[a].pc = "done" /\ adm[a].cmd = "unban" /\ adm[a].clean)
        => (~Banned(adm[a].target) /\ Allowed(adm[a].target))

UnbanPostconditionWitness ==
    \E a \in AdminSlots :
        /\ adm[a].pc = "done" /\ adm[a].cmd = "unban" /\ adm[a].clean
        /\ adm[a].cleared
        /\ adm[a].tried = <<1>>
        /\ ~Banned(adm[a].target) /\ Allowed(adm[a].target)

\* C10 (unban is one transaction), as claimed: while an unban that cleared a
\* ban row has not yet written the allow-list, no sweep candidate and no
\* enforce_user invocation reads the user as not allow-listed, and a failed
\* upsert does not leave the user neither banned nor allow-listed.
UnbanWindow(u) ==
    \E a \in AdminSlots :
        /\ adm[a].cmd = "unban" /\ adm[a].pc = "upsert" /\ adm[a].cleared
        /\ adm[a].target = u

UnbanAtomic ==
    [][ /\ (sw.pc = "al" /\ UnbanWindow(SwUser)) => sw'.pc # "precheck"
        /\ (ev.pc = "al" /\ UnbanWindow(EvUser)) => ev'.pc # "ban_na"
        /\ \A a \in AdminSlots :
              (UnbanWindow(adm[a].target) /\ adm'[a].pc = "failed")
              => (Banned(adm[a].target)' \/ Allowed(adm[a].target)') ]_vars

----------------------------------------------------------------------------
(* Properties of the raid window and the raid alert                        *)

\* the joins registered for room c whose timestamp lies in (t - window, t]
InWindow(c, t) ==
    {i \in DOMAIN hist.joins[c] :
        hist.joins[c][i] > t - RAID_WINDOW_SECONDS /\ hist.joins[c][i] <= t}

\* the latest register_join call of room c happened at the present time
JustRegistered(c) ==
    hist.joins[c] # <<>> /\ hist.joins[c][Len(hist.joins[c])] = now

\* C11 (sliding window), as claimed: the count register_join returned at time
\* t for a room is the number of joins registered for that room with a
\* timestamp in the half-open interval (t - 30, t]; a join exactly 30 seconds
\* old is not counted.
SlidingWindow ==
    \A c \in Rooms :
        JustRegistered(c) => Len(join_events[c]) = Cardinality(InWindow(c, now))

RaidThreshold ==
    [][ \A c \in Rooms :
          (hist'.joins[c] # hist.joins[c])
          => ( (hist'.alerts[c] = hist.alerts[c] + 1)
               <=> ( /\ Len(join_events'[c]) >= RAID_THRESHOLD_JOINS
                     /\ hist'.peak[c] < RAID_THRESHOLD_JOINS ) ) ]_vars

\* the 11th join in the window: the count is 11 and there is still one alert
RaidThresholdWitness ==
    /\ Len(join_events[1]) = RAID_THRESHOLD_JOINS + 1
    /\ hist.peak[1] = RAID_THRESHOLD_JOINS
    /\ hist.alerts[1] = 1
    /\ hist.alerts[2] = 0

----------------------------------------------------------------------------
(* Properties of a sweep run                                               *)

\* C14 (administrator exemption in the sweep): a sweep run makes no ban call
\* for a user who is in the administrator set it fetched for that room, and
\* the candidate it evaluates is never such a user; a user who is an
\* administrator of another room of the run is still banned in a room where
\* they were seen, are no administrator and the ban predicate holds (unless
\* reported kicked, or a store call of the room failed).
AdminExemption ==
    /\ \A k \in sw.bancalls : k[2] \notin sw.fetched[k[1]]
    /\ (sw.pc \in {"gb", "al", "precheck", "ban", "notify", "cret"})
       => SwUser \notin sw.admin_ids
    /\ ( /\ SwFinished
         /\ sw.inv.out \notin {"store_error", "kicked"}
         /\ ShouldBan(Banned(SwUser), Allowed(SwUser))
         /\ \E c \in Rooms \ {SwChat} : SwUser \in sw.fetched[c] )
       => <<SwChat, SwUser>> \in sw.bancalls

\* user 2, globally banned, was skipped as an administrator of room 1 and
\* banned in room 2
AdminExemptionWitness ==
    /\ SwFinished
    /\ SwChat = 2 /\ SwUser = 2
    /\ Banned(2)
    /\ 2 \in sw.fetched[1]
    /\ sw.bancalls = {<<2, 2>>}

\* C15 (per-room failure isolation): whatever call fails while a room is
\* processed, the run goes on: the rooms visited and the rooms still to come
\* are always the rooms listed, and when the run returns every listed room
\* has been visited.
RoomIsolation ==
    /\ (sw.pc \notin {"idle", "list", "done"})
       => sw.visited \cup Range(sw.chats) = sw.listed
    /\ (sw.pc = "done") => sw.visited = sw.listed

\* a call failed in room 1, and room 2 was then swept down to a ban call
RoomIsolationWitness ==
    /\ sw.pc = "done"
    /\ sw.failed = {1}
    /\ sw.visited = {1, 2}
    /\ <<2, 2>> \in sw.bancalls
    /\ sw.fetched[1] = {}

\* C16 (sweep notification cooldown): two consecutive sweep notifications of
\* a pair are at least BAN_NOTIFY_COOLDOWN apart; the sweep notifies a pair
\* exactly when that much time has passed since the pair's timestamp, which it
\* then refreshes to the present time; a ban whose notification is suppressed
\* leaves the timestamp as it was.
SweepCooldown ==
    /\ [](\A k \in Rooms \X Users :
            Len(hist.pings[k]) = 2
            => hist.pings[k][2] - hist.pings[k][1] >= BAN_NOTIFY_COOLDOWN)
    /\ [][ \A k \in Rooms \X Users :
             /\ (hist'.pings[k] # hist.pings[k])
                <=> (last_notified'[k] = now /\ last_notified[k] # now)
             /\ (hist'.pings[k] # hist.pings[k])
                => now - last_notified[k] >= BAN_NOTIFY_COOLDOWN
             /\ (hist'.pings[k] = hist.pings[k])
                => last_notified'[k] = last_notified[k] ]_vars

\* a pair notified twice, a cooldown apart, and a ban whose notification was
\* suppressed
SweepCooldownWitness ==
    /\ Len(hist.pings[<<1, 1>>]) = 2
    /\ SwFinished
    /\ sw.inv.banOk /\ ~sw.inv.notified
    /\ last_notified[<<SwChat, SwUser>>] > now - BAN_NOTIFY_COOLDOWN

\* C17 (duplicate pings suppressed system-wide), as claimed: counting the
\* notifications of enforce_user and of the sweep together, two consecutive
\* ban notifications of a pair are at least BAN_NOTIFY_COOLDOWN apart.
NoDuplicatePings ==
    \A k \in Rooms \X Users :
        Len(hist.pings[k]) = 2
        => hist.pings[k][2] - hist.pings[k][1] >= BAN_NOTIFY_COOLDOWN

\* the sweep has banned u in room c, or has found u already kicked there
EvictedBySweep(c, u) ==
    /\ sw.pc \in {"notify", "cret"}
    /\ SwChat = c /\ SwUser = u
    /\ (sw.inv.banOk \/ sw.inv.status = "kicked")

EvBanFailed == ev.inv.bans = 1 /\ ~ev.inv.banOk

\* the sweep run evaluated every candidate of room c (no call raised into
\* the outer except)
SwCompleted(c) == c \in sw.visited \ sw.cut

\* C19 (best-effort ban): an invocation of enforce_user makes at most one ban
\* call; when that call fails the invocation is over at once: nothing is
\* raised to the caller, no JoinLog row is written, no notification is sent,
\* and the pair stays in the seen set.  A sweep run that ends afterwards and
\* evaluated every candidate of the room has made a ban call for such a pair,
\* unless the user is an administrator of the room or the platform reported
\* them kicked.
BestEffortBan ==
    /\ ev.inv.bans <= 1
    /\ EvBanFailed =>
          /\ ev.pc \in {"ret", "hret"}
          /\ ~ev.inv.raised
          /\ EvLoggedNothing
          /\ ev.inv.attempted = {}
          /\ <<ev.chat, EvUser>> \in hist.unbanned
          /\ EvUser \in Range(seen_users[ev.chat])
    /\ sw.pc = "done" =>
          \A k \in hist.unbanned :
              (SwCompleted(k[1]) /\ k[2] \notin sw.fetched[k[1]])
              => k \in sw.bancalls \cup sw.kicked

\* the ban of user 1 on joining room 1 failed; the sweep that follows makes
\* the ban call for the pair again
BestEffortBanWitness ==
    /\ sw.pc = "done"
    /\ <<1, 1>> \in hist.unbanned
    /\ <<1, 1>> \in sw.bancalls
    /\ join_logs = <<>>
    /\ hist.pings[<<1, 1>>] = <<>>

\* C20 (superadmin supremacy), as claimed: whenever the guard of an MG-level
\* command sent by a superadmin returns, it lets the command through (the
\* handler goes on to add_subgroup).
SuperadminSupremacy ==
    [][ ( /\ AdmGuard(1)
          /\ is_super_admin(adm[1].who)
          /\ get_role(management_groups, adm[1].target, adm[1].who) = "superadmin"
          /\ adm'[1].pc # "failed" )
        => adm'[1].pc = "add_sub" ]_vars

\* the MG-level commands that enter mg_owner_guard
MgCmds == {"add_group", "list_groups"}

\* the guard has admitted the command in progress
MgAdmitted(rec) == rec.cmd \in MgCmds /\ rec.pc \in {"add_sub", "list_sub"}

\* C21 (MG-owner permission): a management group has at most one stored
\* owner; the guard admits a command exactly when it was sent in a group chat
\* whose stored owner is the sender (no other table is read), a command sent
\* in a private chat is denied, and once set_management_group has stored a
\* new owner nobody else, the previous owner included, passes the guard.
MgOwnerPermission ==
    /\ [](\A mg \in Mgs :
            Cardinality(get_management_group_owner(management_groups, mg)) <= 1)
    /\ [][ /\ (adm[1].pc = "guard" /\ adm'[1].pc \notin {"guard", "failed"})
              => (MgAdmitted(adm'[1])
                  <=> <<adm[1].target, adm[1].who>> \in management_groups)
           /\ (MgAdmitted(adm'[1]) /\ ~MgAdmitted(adm[1]))
              => (adm[1].pc = "guard" /\ adm[1].ctype \in GroupTypes /\ db_ready)
           /\ (adm[1].pc = "idle" /\ adm'[1].cmd \in MgCmds
                                  /\ adm'[1].ctype \notin GroupTypes)
              => adm'[1].pc = "done"
           /\ (adm[1].pc = "set_mg" /\ adm'[1].pc = "done")
              => \A u \in MgActors \ {adm[1].arg} :
                    ~mg_owner_guard(management_groups', adm[1].target, u)
           /\ (adm[1].pc = "guard" /\ adm'[1].pc # "guard"
                 /\ <<adm[1].target, adm[1].who>> \in hist.exowners)
              => ~MgAdmitted(adm'[1])
         ]_vars

\* user 1 owned management group 1 and registered room 1 under it, the
\* owner was then set to user 2, and the add_group of user 1 for room 2 in
\* the group chat was denied
MgOwnerPermissionWitness ==
    /\ adm[1].cmd = "add_group" /\ adm[1].pc = "done"
    /\ adm[1].who = 1 /\ adm[1].target = 1 /\ adm[1].arg = 2
    /\ adm[1].ctype \in GroupTypes
    /\ db_ready
    /\ <<1, 2>> \in management_groups
    /\ <<1, 1>> \in hist.exowners
    /\ <<1, 1>> \in Range(mg_subgroups)
    /\ <<1, 2>> \notin Range(mg_subgroups)

\* C22 (hierarchy invariant), as claimed: no two mg_subgroups rows carry the
\* same subgroup under different management groups.
SubgroupOneMg ==
    \A r \in Range(mg_subgroups), q \in Range(mg_subgroups) :
        r[2] = q[2] => r[1] = q[1]

\* the number of positions of the sequence s that hold x
Occurrences(s, x) == Cardinality({i \in 1..Len(s) : s[i] = x})

\* C23 (subgroup registration): when add_subgroup(mg, S) has returned,
\* list_subgroups(mg) holds S exactly once; a new S is at the head of the
\* list, in front of the earlier subgroups in their order, and an S already
\* registered leaves the table and the list as they were.  The list of
\* another management group does not change.
SubgroupRegistration ==
    [][ (adm[1].pc = "add_sub" /\ adm'[1].pc = "done")
        => LET mg     == adm[1].target
               S      == adm[1].arg
               before == list_subgroups(mg_subgroups, mg)
               after  == list_subgroups(mg_subgroups', mg)
           IN  /\ Occurrences(after, S) = 1
               /\ IF S \in Range(before)
                  THEN after = before /\ mg_subgroups' = mg_subgroups
                  ELSE after = <<S>> \o before
               /\ \A other \in Mgs \ {mg} :
                     list_subgroups(mg_subgroups', other)
                        = list_subgroups(mg_subgroups, other)
      ]_vars

\* the owner of management group 1 has sent room 1 again after room 2: the
\* add_group went through and room 1 is still behind room 2 in the list
SubgroupRegistrationWitness ==
    /\ adm[1].cmd = "add_group" /\ adm[1].pc = "done"
    /\ adm[1].target = 1 /\ adm[1].arg = 1
    /\ adm[1].ctype \in GroupTypes /\ db_ready
    /\ <<1, adm[1].who>> \in management_groups
    /\ list_subgroups(mg_subgroups, 1) = <<2, 1>>

\* the user ids of the rows list_allowed_members returns for the table t
ListedIds(t) ==
    LET l == list_allowed_members(t) IN [i \in 1..Len(l) |-> l[i][1]]

\* C24 (allow-list upsert idempotence): list_allowed_members is in strictly
\* ascending user_id order (so without duplicates), and when
\* upsert_allowed_member(u, profile) has returned, whatever row u had before,
\* is_allowed_member(u) is true, the table holds for u the profile of this
\* call, the listing has u once with the username of this call, and the rows
\* of the other users are as they were.
UpsertIdempotence ==
    /\ [](LET ids == ListedIds(allowed_members)
          IN  \A i \in 1..Len(ids), j \in 1..Len(ids) : i < j => ids[i] < ids[j])
    /\ [][ (adm[1].pc = "upsert" /\ adm'[1].pc \notin {"upsert", "failed"})
           => LET u == adm[1].target
              IN  /\ is_allowed_member(allowed_members', u)
                  /\ allowed_members'[u] = adm[1].prof
                  /\ Occurrences(ListedIds(allowed_members'), u) = 1
                  /\ <<u, adm[1].prof[1]>>
                        \in Range(list_allowed_members(allowed_members'))
                  /\ \A v \in Users \ {u} :
                        allowed_members'[v] = allowed_members[v]
         ]_vars

\* add_member for user 1 has overwritten a row with another profile, while
\* user 2 is allow-listed too
UpsertIdempotenceWitness ==
    /\ adm[1].cmd = "add_member" /\ adm[1].pc = "done" /\ adm[1].target = 1
    /\ adm[1].prev \notin {Absent, adm[1].prof}
    /\ allowed_members[1] = adm[1].prof
    /\ is_allowed_member(allowed_members, 2)

\* the store is unconfigured: DATABASE_URL is empty or a placeholder
Unconfigured == ~is_db_ready(proc.url) \/ Strip(proc.url) = <<>>

\* C25 (configuration failure is a feature gate), as claimed: once the
\* configuration has been read with the store unconfigured, the process is
\* not terminated, and the join handlers, the seen-marking handler and the
\* sweep make no store or platform call.
ConfigGate ==
    (proc.phase # "boot" /\ Unconfigured)
    => /\ proc.phase # "crashed"
       /\ sw.pc = "idle"
       /\ ev.pc \in {"idle", "hret"}
       /\ ev.inv.calls = 0

\* C30 (sweep scheduling), as claimed: in both run modes, once the
\* application is up the sweep job is scheduled, its first run due
\* SWEEP_FIRST seconds after start-up, and the schema of a configured store
\* has been initialised.
SweepScheduling ==
    Up => /\ proc.scheduled
          /\ proc.due >= StartTime + SWEEP_FIRST
          /\ db_ready => proc.schema

\* C26 (store errors propagate from enforcement), as claimed: an
\* invocation of enforce_user in which a store call failed ends by raising
\* to its caller.
StoreErrorsPropagate ==
    (EvFinished /\ ev.inv.out = "store_error") => ev.inv.raised

\* the recipients of the attempts in the log l, in order
Recipients(l) == [i \in 1..Len(l) |-> l[i][1]]

Operators == SortedSeq(AdminIds)

\* C27 (notification fan-out isolation): the attempts made so far followed by
\* the recipients still to come are the operator list, whatever the outcome
\* of each attempt; so when the loop of a raid alert, of a ban notification of
\* enforce_user or of a sweep notification is over, every operator has had
\* exactly one attempt.  After the ban notification enforce_user goes on to
\* the JoinLog write.
FanOutIsolation ==
    /\ ev.pc = "raid_notify" => Recipients(ev.raidSent) \o ev.todo = Operators
    /\ (ev.pc # "raid_notify" /\ ev.raidSent # <<>>)
          => Recipients(ev.raidSent) = Operators
    /\ ev.pc = "notify" => Recipients(ev.inv.sent) \o ev.todo = Operators
    /\ (ev.pc # "notify" /\ ev.inv.banOk /\ ev.inv.out # "gban")
          => /\ Recipients(ev.inv.sent) = Operators
             /\ ev.pc = "log" \/ EvLoggedOnce \/ ev.inv.out = "store_error"
    /\ sw.pc = "notify" => Recipients(sw.inv.sent) \o sw.todo = Operators
    /\ (sw.pc = "cret" /\ sw.inv.notified)
          => Recipients(sw.inv.sent) = Operators
    /\ (sw.pc # "notify" /\ ~sw.inv.notified) => sw.inv.sent = <<>>

\* the join that raised the raid alert: the alert failed for operator 8 and
\* reached operator 9, the ban notification of user 1 likewise, and the
\* JoinLog row was written
FanOutIsolationWitness ==
    /\ EvFinished
    /\ ev.raidSent = <<<<8, FALSE>>, <<9, TRUE>>>>
    /\ ev.inv.sent = <<<<8, FALSE>>, <<9, TRUE>>>>
    /\ EvLoggedOnce

\* C28 (JoinLog is append-only): every step leaves the rows already in
\* join_logs in place and unchanged; a step that adds to the table is the
\* log_join_event call of enforce_user, made after the ban call of the same
\* invocation succeeded, and adds one row "banned" for the pair of that
\* invocation.  So every row carries action_taken = "banned".
JoinLogAppendOnly ==
    /\ [](\A i \in 1..Len(join_logs) : join_logs[i].action_taken = "banned")
    /\ [][ /\ Len(join_logs') >= Len(join_logs)
           /\ SubSeq(join_logs', 1, Len(join_logs)) = join_logs
           /\ join_logs' # join_logs
                => /\ ev.pc = "log" /\ ev'.pc = "ret"
                   /\ ev.inv.bans = 1 /\ ev.inv.banOk
                   /\ join_logs' = Append(join_logs, BannedRecord(ev.chat, EvUser))
         ]_vars

\* one update brought users 1 and 2 into room 1; both were banned and logged,
\* the row of user 1 still in front of the row of user 2
JoinLogAppendOnlyWitness ==
    /\ EvFinished
    /\ join_logs = <<BannedRecord(1, 1), BannedRecord(1, 2)>>

\* C29 (non-fatal pre-check): when get_chat_member fails, enforce_user goes on
\* to the registry reads and a sweep candidate goes on to the ban call: neither
\* ends as "kicked".  An invocation that read the user as globally banned, or
\* as neither banned nor allow-listed, has made its ban call when it returns,
\* and so has a sweep candidate, which reaches the lookup only when it is to
\* be banned.
NonFatalPrecheck ==
    /\ (ev.pc \notin {"idle", "protected", "hret"} /\ ev.inv.status = "lookup_error")
       => /\ ev.pc \in {"gb", "al", "ban_gb", "ban_na", "notify", "log", "ret"}
          /\ EvFinished
               => /\ ev.inv.out # "kicked"
                  /\ ev.inv.gb # "none"
                  /\ (ev.inv.gb = "yes" \/ ev.inv.al = "no") => ev.inv.bans = 1
    /\ (sw.pc # "idle" /\ sw.inv.status = "lookup_error")
       => /\ sw.pc \in {"ban", "notify", "cret"}
          /\ (sw.inv.gb = "yes" \/ sw.inv.al = "no")
          /\ SwFinished
               => /\ sw.inv.out \in {"banned", "ban_failed"}
                  /\ sw.inv.bans = 1

\* the lookup failed for a joining user who is not allow-listed; the user was
\* banned and logged all the same
NonFatalPrecheckWitness ==
    /\ EvFinished
    /\ ev.inv.status = "lookup_error"
    /\ ev.inv.al = "no"
    /\ ev.inv.banOk
    /\ EvLoggedOnce

-----------------------------------------------------------------------------
(* SpecSeen: messages and a sweep in two protected rooms.  User 1 writes   *)
(* in room 1 only, user 2 in both rooms; the sweep interleaves with the    *)
(* message handler.                                                        *)

SeenPairs == {<<1, 1>>, <<1, 2>>, <<2, 2>>}

InitSeen ==
    /\ db_ready = TRUE
    /\ allowed_members \in {[u \in Users |-> Absent], [u \in Users |-> NoProfile]}
    /\ global_banned = {}
    /\ protected_chats = Rooms
    /\ seen_users \in {[c \in Rooms |-> <<>>],
                       [c \in Rooms |-> IF c = 1 THEN <<2, 1>> ELSE <<>>]}
    /\ join_logs = <<>>
    /\ management_groups = {}
    /\ mg_subgroups = <<>>
    /\ mg_settings = {}
    /\ join_events = [c \in Rooms |-> <<>>]
    /\ raid_notified_chats = {}
    /\ last_notified = [k \in Rooms \X Users |-> 0]
    /\ now = StartTime
    /\ ev = EvIdle
    /\ sw = SwIdle
    /\ adm = [a \in AdminSlots |-> AdmIdle]
    /\ hist = HistInit
    /\ proc = ProcStarted(db_ready)

NextSeen ==
    \/ \E k \in SeenPairs, ctype \in {"private", "supergroup"} :
          SeenStart(k[1], k[2], ctype)
    \/ SeenProtected
    \/ SeenMark
    \/ HandlerFinish
    \/ SweepStart
    \/ SweepSteps

SpecSeen == InitSeen /\ [][NextSeen]_vars

\* the limits tried on get_seen_users besides the one of the sweep
SeenLimits == {0, 1, 2, SEEN_LIMIT}

NoRepeat(s) == \A i, j \in 1..Len(s) : s[i] = s[j] => i = j

\* the sweep holds the candidates of a room
SwEvaluating == sw.pc \in {"gb", "al", "precheck", "ban", "notify", "cret"}

\* C31 (seen set as bounded candidate list): a room holds one row per user;
\* get_seen_users(room, limit) returns the first limit users of that room in
\* order of their latest sighting, without repetition; a mark_seen for
\* (room, user) puts the user in front, keeps the order of the others and
\* touches no other room; the candidates and the ban calls of a sweep are
\* users seen in the room being swept, at most SEEN_LIMIT of them.
SeenCandidates ==
    /\ [](\A c \in Rooms, l \in SeenLimits :
            LET r == get_seen_users(seen_users, c, l)
            IN  /\ NoRepeat(seen_users[c])
                /\ Len(r) = Min({l, Len(seen_users[c])})
                /\ r = SubSeq(seen_users[c], 1, Len(r)))
    /\ [](SwEvaluating
            => /\ Len(sw.seen) <= SEEN_LIMIT
               /\ Range(sw.seen) \subseteq Range(seen_users[SwChat]))
    /\ [](\A k \in sw.bancalls : k[2] \in Range(seen_users[k[1]]))
    /\ [][ seen_users' # seen_users
            => /\ ev.pc = "seen_mark"
               /\ get_seen_users(seen_users', ev.chat, 1) = <<EvUser>>
               /\ Without(seen_users'[ev.chat], EvUser)
                     = Without(seen_users[ev.chat], EvUser)
               /\ \A c \in Rooms \ {ev.chat} : seen_users'[c] = seen_users[c]
         ]_vars

\* user 2, seen in room 1 before user 1, wrote again there and is first; a
\* limit of one returns user 2 alone; the sweep of room 2 holds user 2 only
SeenCandidatesWitness ==
    /\ seen_users[1] = <<2, 1>>
    /\ seen_users[2] = <<2>>
    /\ get_seen_users(seen_users, 1, 1) = <<2>>
    /\ ev.pc = "hret" /\ ev.hres = "seen" /\ ev.chat = 1 /\ EvUser = 2
    /\ SwEvaluating /\ SwChat = 2 /\ sw.seen = <<2>>
    /\ <<1, 1>> \in sw.bancalls

\* sa_unban_id has returned for u: the ban row is gone, the allow-list row is
\* there and unban_chat_member was called for every protected room
UnbanCompleted(u) ==
    /\ \E a \in AdminSlots :
          /\ adm[a].cmd = "unban" /\ adm[a].target = u /\ adm[a].pc = "done"
          /\ Range(adm[a].tried) = protected_chats
    /\ \A a \in AdminSlots : adm[a].target = u => adm[a].pc \in {"idle", "done"}
    /\ ~Banned(u) /\ Allowed(u)

\* C32 (no stale ban after unban), as claimed: once sa_unban_id has completed
\* for u and no other command has touched u, no task makes a ban_chat_member
\* call for u, a sweep or an enforce_user invocation that read the registry
\* before the unban included.
NoStaleBan ==
    [][ \A u \in Users :
          UnbanCompleted(u)
          => /\ ~(sw.pc = "ban" /\ SwUser = u /\ sw'.inv.bans = sw.inv.bans + 1)
             /\ ~(ev.pc \in {"ban_gb", "ban_na"} /\ EvUser = u
                     /\ ev'.inv.bans = ev.inv.bans + 1) ]_vars

\* C37 (the raid window counts users), as claimed: a join update of a
\* protected room adds one timestamp per joining user to the window of that
\* room, so a new-members message carrying k users advances the count by k;
\* an update of an unprotected room leaves every window as it is.
RaidWindowCountsUsers ==
    [][ ev.pc = "protected"
          => /\ ev'.pc \in {"enter", "raid_notify"}
                  => Len(join_events'[ev.chat])
                        = Len(join_events[ev.chat]) + Len(ev.members)
             /\ (ev'.pc = "hret" /\ ev'.hres = "unprotected")
                  => join_events' = join_events ]_vars

-----------------------------------------------------------------------------
(* SpecMember: a superadmin's remove-member, add-member and unban commands *)
(* on user 1, one at a time, in between joins of user 1 in room 1; both    *)
(* rooms are protected and user 1 starts allow-listed, with or without a   *)
(* stored profile.                                                         *)

InitMember ==
    /\ db_ready = TRUE
    /\ allowed_members \in {[u \in Users |-> p] : p \in Profiles}
    /\ global_banned = {}
    /\ protected_chats = Rooms
    /\ seen_users = [c \in Rooms |-> <<>>]
    /\ join_logs = <<>>
    /\ management_groups = {}
    /\ mg_subgroups = <<>>
    /\ mg_settings = {}
    /\ join_events = [c \in Rooms |-> <<>>]
    /\ raid_notified_chats = {}
    /\ last_notified = [k \in Rooms \X Users |-> 0]
    /\ now = StartTime
    /\ ev = EvIdle
    /\ sw = SwIdle
    /\ adm = [a \in AdminSlots |-> AdmIdle]
    /\ hist = HistInit
    /\ proc = ProcStarted(db_ready)

NextMember ==
    \/ \E cmd \in {"remove_member", "unban"} :
          ev.pc = "idle" /\ AdmStart(1, cmd, 1, NoProfile)
    \/ \E p \in Profiles : ev.pc = "idle" /\ AdmStart(1, "add_member", 1, p)
    \/ AdminSteps(1)
    \/ (AdmQuiet /\ JoinBudget /\ NewMembersStart(1, <<1>>))
    \/ LiveSteps

SpecMember == InitMember /\ [][NextMember]_vars

\* C38 (remove-member postcondition): when sa_remove_member_id returns for u,
\* u has no allow-list row and has a global-ban row, and ban_chat_member was
\* called once for every protected chat, whatever the outcome of the earlier
\* calls; add-member leaves the ban row in place, and an enforce_user
\* invocation that reads u as globally banned makes its ban call although u
\* is allow-listed again.
RemoveMemberPost ==
    /\ [](\A a \in AdminSlots :
            (adm[a].cmd = "remove_member" /\ adm[a].pc = "done")
            => /\ ~Allowed(adm[a].target)
               /\ Banned(adm[a].target)
               /\ adm[a].tried = list_protected_chats(protected_chats))
    /\ [](EvFinished /\ ev.inv.gb = "yes"
            => ev.inv.out = "gban" /\ ev.inv.bans = 1)
    /\ [][ \A a \in AdminSlots :
              adm[a].cmd = "add_member" => global_banned' = global_banned ]_vars

\* user 1 was removed and added again; the next join of user 1 finds the ban
\* row and the allow-list row, and user 1 is banned from room 1
RemoveMemberPostWitness ==
    /\ EvFinished /\ EvUser = 1
    /\ ev.inv.wasBanned /\ ev.inv.wasAllowed
    /\ ev.inv.banOk
    /\ Banned(1) /\ Allowed(1)

\* C39 (unban preserves an existing profile), as claimed: when sa_unban_id
\* writes the allow-list row of a user who already has one, the stored
\* username, first name and last name stay as they were.
UnbanKeepsProfile ==
    [][ \A a \in AdminSlots :
          ( /\ adm[a].cmd = "unban" /\ adm[a].pc = "upsert"
            /\ adm'[a].pc = AfterUpsert("unban")
            /\ Allowed(adm[a].target) )
          => allowed_members'[adm[a].target] = allowed_members[adm[a].target] ]_vars

----------------------------------------------------------------------------
(* The update dispatcher with one task at a time: a superadmin (8) and the *)
(* owner (1) of management group 1 send texts, commands, a button press    *)
(* and a photo, in a private chat or in group 1, which is protected.       *)

DispatchSenders == {1, 8}

DispatchTexts ==
    {[kw |-> k, id |-> i] :
        k \in InlineKeywords \cup {"none", "list_members", "addmode",
                                   "list_groups", "add_group"},
        i \in {0, 2}}

DispatchCommands ==
    {"start", "ban", "add_group", "list_groups", "addmode", "list_members"}

Updates ==
    {[who |-> w, chat |-> IF t = "private" THEN w ELSE 1, ctype |-> t,
      kind |-> k, text |-> x, mode |-> m] :
        w \in DispatchSenders, t \in {"private", "supergroup"},
        k \in {"text", "command", "callback", "other"},
        x \in DispatchTexts \cup {[kw |-> c, id |-> 0] : c \in DispatchCommands},
        m \in {"none", "ask", "bad"}}

\* the updates sent: a command names a command, only the mode commands carry
\* a mode, a photo carries no text and comes from the owner
WellFormed(upd) ==
    /\ upd.kind = "command" => upd.text.kw \in DispatchCommands /\ upd.text.id = 0
    /\ upd.kind = "text" => upd.text \in DispatchTexts /\ upd.text # NoText
    /\ upd.kind = "callback" => upd.text = NoText /\ upd.mode = "ask"
    /\ upd.kind = "other" => upd.text = NoText /\ upd.mode = "none" /\ upd.who = 1
    /\ upd.kind \in {"text", "command"} =>
          (upd.mode # "none" <=> upd.text.kw = "addmode")

InitDispatch ==
    /\ db_ready = TRUE
    /\ allowed_members = [u \in Users |-> Absent]
    /\ global_banned = {}
    /\ protected_chats = {1}
    /\ seen_users = [c \in Rooms |-> <<>>]
    /\ join_logs = <<>>
    /\ management_groups = {<<1, 1>>}
    /\ mg_subgroups = <<>>
    /\ mg_settings = {}
    /\ join_events = [c \in Rooms |-> <<>>]
    /\ raid_notified_chats = {}
    /\ last_notified = [k \in Rooms \X Users |-> 0]
    /\ now = StartTime
    /\ ev = EvIdle
    /\ sw = SwIdle
    /\ adm = [a \in AdminSlots |-> AdmIdle]
    /\ hist = HistInit
    /\ proc = ProcStarted(TRUE)

NextDispatch ==
    \/ \E upd \in Updates : WellFormed(upd) /\ ev.pc = "idle" /\ ProcessUpdate(1, upd)
    \/ FarsiText(1)
    \/ RouterGuard(1)
    \/ AdmGuard(1)
    \/ MgAddGroupStart(1)
    \/ AdmSetMode(1)
    \/ AdmListSub(1)
    \/ AdmListMembers(1)
    \/ AdmAddChat(1)
    \/ AdmRmChat(1)
    \/ AdmAddBan(1)
    \/ AdmRmBan(1)
    \/ AdmUpsert(1)
    \/ AdmList(1)
    \/ AdmPlatform(1)
    \/ AdmFinish(1)
    \/ SeenProtected
    \/ SeenMark
    \/ HandlerFinish

SpecDispatch == InitDispatch /\ [][NextDispatch]_vars

\* the task of slot 1 was started by a superadmin's message in a private chat
FromSuperAdminPv ==
    /\ adm[1].pc # "idle"
    /\ adm[1].who \in AdminIds
    /\ adm[1].ctype = "private"
    /\ adm[1].chat = adm[1].who

\* the task of slot 1 was started in a management group by its current owner
FromCurrentOwner ==
    /\ adm[1].pc # "idle"
    /\ adm[1].ctype \in GroupTypes
    /\ adm[1].target = adm[1].chat
    /\ <<adm[1].chat, adm[1].who>> \in management_groups

\* C33: every step that changes the allow list, the global bans, the protected
\* chats or the management groups belongs to the handling of an update sent
\* in a private chat by a superadmin, whichever handler was reached (command,
\* conversation state or the Persian text router); every step that changes
\* the subgroups or the add-member mode of a management group belongs to the
\* handling of an update sent in that group by its current owner.
RegistryBySuperAdmin ==
    [][ /\ (<<allowed_members, global_banned, protected_chats,
              management_groups>>' #
                <<allowed_members, global_banned, protected_chats,
                  management_groups>>) => FromSuperAdminPv
        /\ (<<mg_subgroups, mg_settings>>' # <<mg_subgroups, mg_settings>>)
                => FromCurrentOwner ]_vars

\* the owner has set the mode of management group 1, and a superadmin's text
\* "ban 2" in a private chat has written the ban
RegistryBySuperAdminWitness ==
    /\ <<1, "ask">> \in mg_settings
    /\ adm[1].cmd = "ban" /\ adm[1].via = "text" /\ adm[1].who = 8
    /\ adm[1].pc = "done"
    /\ 2 \in global_banned

\* slot 1 handles a superadmin's private text "keyword id" for one of the six
\* keywords that take an identifier
InlineCase ==
    /\ FromSuperAdminPv
    /\ adm[1].via = "text"
    /\ adm[1].text.kw \in InlineKeywords
    /\ adm[1].text.id # 0

\* the registry shows the operation kw applied to id
Applied(kw, id) ==
    CASE kw = "add_member"    -> allowed_members[id] # Absent
      [] kw = "remove_member" -> allowed_members[id] = Absent
      [] kw = "ban"           -> id \in global_banned
      [] kw = "unban"         -> id \notin global_banned
      [] kw = "add_chat"      -> id \in protected_chats
      [] kw = "remove_chat"   -> id \notin protected_chats

\* C34: a superadmin's private text made of a keyword (add member, remove
\* member, ban, unban, add chat, remove chat) and an identifier is applied to
\* exactly that identifier: the router hands the identifier to the operation,
\* and when the handler has returned the registry shows the operation applied
\* to it ("add member 2" leaves user 2 allow-listed).
InlineArgumentApplied ==
    /\ [](InlineCase /\ adm[1].pc = "done"
            => Applied(adm[1].text.kw, adm[1].text.id))
    /\ [][InlineCase /\ adm[1].pc = "farsi"
            => /\ adm'[1].pc = FirstPc(adm[1].text.kw)
               /\ adm'[1].target = adm[1].text.id]_vars

\* C35: once a command (/ban and the like, /add_group) has been answered with
\* the prompt for an identifier, the sender's next plain text with a valid
\* identifier is delivered to the state handler of that conversation, which
\* starts the operation on that identifier, and the conversation ends.
ConversationCompletes ==
    [][ \A name \in {"ban", "add_group"} :
          /\ adm[1].pc = "idle" /\ adm'[1].pc # "idle"
          /\ adm'[1].kind = "text" /\ isdigit(adm'[1].text)
          /\ Waiting(proc.conv, name, adm'[1].chat, adm'[1].who)
          => /\ adm'[1].via = "conversation"
             /\ adm'[1].cmd = name
             /\ adm'[1].pc = FirstPc(name)
             /\ adm'[1].target = adm'[1].text.id
             /\ ~Waiting(proc'.conv, name, adm'[1].chat, adm'[1].who) ]_vars

\* user u is recorded as seen in room c
Seen(c, u) == \E i \in 1..Len(seen_users[c]) : seen_users[c][i] = u

\* this step starts the handling of a message (plain text, command or any
\* other kind but a join notification) that user u sent in group chat c
MessageStarted(c, u) ==
    \/ /\ adm[1].pc = "idle" /\ adm'[1].pc # "idle"
       /\ adm'[1].kind \in {"text", "command", "other"}
       /\ adm'[1].ctype # "private"
       /\ adm'[1].chat = c /\ adm'[1].who = u
    \/ /\ ev.pc = "idle" /\ ev'.pc # "idle"
       /\ ev'.hres # "private"
       /\ ev'.chat = c /\ ev'.members = <<u>>

\* C36: with the store configured, every message that is not a join
\* notification, plain text or not, sent in a protected room that is not a
\* private chat, is handled by on_any_message_seen, and when that handler
\* has written its row the sender is recorded as seen in that room.
EveryMessageSeen ==
    /\ [][ \A c \in protected_chats, u \in DispatchSenders :
             db_ready /\ MessageStarted(c, u)
             => ev'.pc = "seen_protected" /\ ev'.chat = c /\ ev'.members = <<u>>
        ]_vars
    /\ [](ev.pc = "hret" /\ ev.hres = "seen" => Seen(ev.chat, ev.members[1]))
====
